---- MODULE Spec2Model ----
(***************************************************************************)
(* A model of the kvs log-structured storage engine (src/src/kvstore.rs):  *)
(* the lock-free-read KvStore with its writer mutex, ArcSwap'ed key        *)
(* directory, per-handle reader caches and compaction.                     *)
(*                                                                         *)
(* Bytes are modelled as tokens: a Set record is the three tokens          *)
(* <<"Set", key, value>>, an Rm record the two tokens <<"Rm", key>>.       *)
(* Offsets, lengths, MAX_DATA_FILE_SIZE and COMPACT_THRESHOLD are counted  *)
(* in tokens, so the two size constants are scaled down accordingly.       *)
(***************************************************************************)
EXTENDS Integers, Sequences, FiniteSets, TLC

\* ---------------------------------------------------------------- bounds
Keys == {"a", "b"}
Vals == {"x", "y"}
\* number of engine handles (the original plus its clones)
MaxHandles == 2
\* number of mutating calls (Set / Rm) issued in one behaviour
MaxOps == 3
\* the same for the single-handle specification with reopening
MaxOpsReopen == 4
\* the same for the single-handle specification without reopening
MaxOpsOne == 5
\* largest n_threads a pool is built with
MaxWorkers == 2
\* number of jobs spawned on a pool (of connections made to a server)
MaxJobs == 3
\* number of clients that connect to a server
MaxConns == 2
\* number of times the server process is started
MaxBoots == 3

Handles == 1..MaxHandles
NoHandle == 0
\* the writer mutex after a thread panicked while holding it
Poisoned == 0 - 1

\* ------------------------------------------------------- program constants
\* kvstore.rs:24-25, in tokens (see the header)
MAX_DATA_FILE_SIZE == 6
COMPACT_THRESHOLD == 5

\* ------------------------------------------------------------ record codec
SetCmd(k, v) == [tag |-> "Set", key |-> k, value |-> v]
RmCmd(k) == [tag |-> "Rm", key |-> k, value |-> ""]

\* serde_json::to_vec(&command)
to_vec(cmd) ==
    IF cmd.tag = "Set" THEN <<"Set", cmd.key, cmd.value>> ELSE <<"Rm", cmd.key>>

\* One step of the streaming deserializer at byte offset off (0-based):
\* "eof" when no byte is left (de.next() = None), "err" when the bytes do not
\* form a whole record (de.next() = Some(Err)), else the command and the
\* number of bytes consumed.
Decode(bytes, off) ==
    LET rest == SubSeq(bytes, off + 1, Len(bytes)) IN
    IF Len(rest) = 0 THEN [kind |-> "eof", cmd |-> RmCmd(""), len |-> 0]
    ELSE IF rest[1] = "Set" /\ Len(rest) >= 3
         THEN [kind |-> "cmd", cmd |-> SetCmd(rest[2], rest[3]), len |-> 3]
    ELSE IF rest[1] = "Rm" /\ Len(rest) >= 2
         THEN [kind |-> "cmd", cmd |-> RmCmd(rest[2]), len |-> 2]
    ELSE [kind |-> "err", cmd |-> RmCmd(""), len |-> 0]

\* --------------------------------------------------------------- results
Res(kind, val) == [kind |-> kind, val |-> val]
Pending == Res("pending", "")
ResOk == Res("Ok", "")
ResNone == Res("None", "")
ResValue(v) == Res("Value", v)
RemoveNonexistKey == Res("RemoveNonexistKey", "")
IoError == Res("IoError", "")
SeredError == Res("SeredError", "")
Panic == Res("panic", "")

\* what a sequential map holding m (a value, or "" for absent) answers to Get
MapGet(m) == IF m = "" THEN ResNone ELSE ResValue(m)

NoMeta == [file_id |-> 0, file_offset |-> 0, len |-> 0]
NoOp == [type |-> "none", key |-> "", value |-> ""]
\* no compaction has published an index
NoPub == [n |-> 0, olds |-> {}]
NoSnap == [abs |-> "", settled |-> FALSE, lastOk |-> "none", by |-> 0,
           cmp |-> FALSE, ovl |-> FALSE, quiet |-> FALSE, seq |-> 0,
           pub |-> NoPub]

VARIABLES
    IS_TEST,         \* crate::IS_TEST, the build profile
    disk,            \* file id -> bytes the kernel holds for <id>.dat
    linked,          \* ids whose <id>.dat is present in the directory
    writer,          \* SharedState.writer: Writer and its BufWriter (file: the
                     \* segment the BufWriter is open on)
    lock,            \* holder of the writer mutex, or NoHandle
    key_dir,         \* the map published in SharedState.key_dir
    global_version,  \* SharedState.global_version
    live,            \* the handles that exist
    readers,         \* handle -> ids in Readers.files
    local_version,   \* handle -> Readers.local_version
    pc,              \* handle -> position in its current call
    op,              \* handle -> the call it is in (or made last)
    meta,            \* handle -> placement a Get has looked up
    res,             \* handle -> result of its last completed call
    new_key_dir,     \* compact(): the copy of the index being rewritten
    todo,            \* compact(): keys of the copy not yet rewritten
    dels,            \* compact(): cached file ids not yet removed
    olds,            \* history: the segment files present when compact() began
    compacted,       \* the mutation in flight has entered compact()
    abs,             \* history: the sequential map (key -> value or "")
    lastOk,          \* history: key -> kind of its last mutation that returned Ok
    lastBy,          \* history: key -> handle of that mutation
    tainted,         \* history: key -> a mutation of it failed or was lost since
    afterCompact,    \* history: the last returned mutation ran a compaction
    snap,            \* history: handle -> what held when its call took effect
    reopened,        \* history: the store was reopened from a flushed directory
    nops,            \* number of mutating calls issued
    budget,          \* number of mutating calls the behaviour may issue
    published,       \* history: which compaction stored the published index
    pool_kind,       \* the ThreadPool implementation in use, or "none"
    n_threads,       \* the argument of ThreadPool::new
    made,            \* what ThreadPool::new returned, and the workers it created
    dropped,         \* the pool value has been dropped
    repeater,        \* mpsc channel job_dispatcher -> repeater: queued jobs
    sleeper,         \* sync_channel waker -> sleeper: ids of idle workers
    sleeper_open,    \* the master still holds sleeper
    job_chan,        \* worker -> its sync_channel(1) job_sender -> job_receiver
    chan_open,       \* worker -> the master still holds its job_sender
    master,          \* the master thread: position, job and worker id in hand
    wk,              \* worker -> position and job of the worker thread
    own_thread,      \* jobs running on a thread of their own (Naive, Rayon)
    caller,          \* the thread that calls spawn: position, job, return point
    spawned,         \* the jobs passed to spawn, in order
    runs,            \* job -> number of times a thread started executing it
    fin,             \* job -> "no", or how its execution ended: "ok", "panic"
    shutdown,        \* KvsServer.shutdown, the AtomicBool
    backlog,         \* connections made to the listener and not yet accepted
    conn,            \* connection -> its request, engine result and response
    sd,              \* position of the thread that calls shutdown(addr, flag)
    dir,             \* the data directory: does it exist, which sentinels it holds
    boot,            \* the kvs-server process: position, --engine, engine selected
    opened,          \* what the last KvStore::open did: "Ok", "Err" or "panic"
    rw               \* an rwlock::KvStore on a directory of its own

storeVars == <<IS_TEST, disk, linked, writer, lock, key_dir, global_version,
               live, readers, local_version, pc, op, meta, res, new_key_dir,
               todo, dels, olds, compacted, abs, lastOk, lastBy, tainted,
               afterCompact, snap, reopened, nops, budget, published,
               opened, rw>>
channelVars == <<repeater, sleeper, sleeper_open, job_chan, chan_open>>
poolVars == <<pool_kind, n_threads, made, dropped, channelVars, master, wk,
              own_thread, caller, spawned, runs, fin>>
serverVars == <<shutdown, backlog, conn, sd>>
bootVars == <<dir, boot>>
vars == <<storeVars, poolVars, serverVars, bootVars>>

shared == <<disk, linked, writer, key_dir, global_version>>
compactVars == <<new_key_dir, todo, dels, olds>>
histVars == <<abs, lastOk, lastBy, tainted, afterCompact>>

\* ------------------------------------------------------------ file system
\* The writer side of the file system, threaded through the helpers below.
FsState == [w |-> writer, disk |-> disk, linked |-> linked, err |-> FALSE]

\* io::BufWriter::flush: the buffered bytes reach the file
FlushFs(st) ==
    [st EXCEPT !.disk[st.w.file] = @ \o st.w.buf, !.w.buf = <<>>]

\* Writer::create_new_data_file.  create_new fails if the file exists; the
\* replaced BufWriter is dropped, which flushes it.
create_new_data_file(st) ==
    LET id == st.w.curr_file_id + 1 IN
    IF id \in st.linked
    THEN [st EXCEPT !.w.curr_file_id = id, !.err = TRUE]
    ELSE LET fl == FlushFs(st) IN
         [w |-> [curr_file_id |-> id, useless_size |-> st.w.useless_size,
                 file |-> id, buf |-> <<>>, pos |-> 0],
          disk |-> [f \in DOMAIN fl.disk \cup {id} |->
                       IF f = id THEN <<>> ELSE fl.disk[f]],
          linked |-> st.linked \cup {id},
          err |-> FALSE]

\* BufWriter::write_all: bytes go to the buffer, pos advances
write_all(st, log) ==
    [st EXCEPT !.w.buf = @ \o log, !.w.pos = @ + Len(log)]

\* an append_log whose placement names the id it had before
\* create_new_data_file advanced it
append_log_stale_id(st, cmd) ==
    LET log == to_vec(cmd)
        file_offset == st.w.pos
    IN  IF Len(log) + file_offset > MAX_DATA_FILE_SIZE
        THEN LET st1 == create_new_data_file(
                            [st EXCEPT !.w.curr_file_id = @ + 1])
             IN  IF st1.err THEN [st |-> st1, meta |-> NoMeta]
                 ELSE [st |-> write_all(st1, log),
                       meta |-> [file_id |-> st.w.curr_file_id + 1,
                                 file_offset |-> 0, len |-> Len(log)]]
        ELSE [st |-> write_all(st, log),
              meta |-> [file_id |-> st.w.curr_file_id,
                        file_offset |-> file_offset, len |-> Len(log)]]

\* an append_log that rolls over only once the segment is already full
append_log_late(st, cmd) ==
    LET log == to_vec(cmd)
        file_offset == st.w.pos
    IN  IF file_offset >= MAX_DATA_FILE_SIZE
        THEN LET st1 == create_new_data_file(
                            [st EXCEPT !.w.curr_file_id = @ + 1])
             IN  IF st1.err
                 THEN [st |-> st1, meta |-> NoMeta]
                 ELSE [st |-> write_all(st1, log),
                       meta |-> [file_id |-> st1.w.curr_file_id,
                                 file_offset |-> 0, len |-> Len(log)]]
        ELSE [st |-> write_all(st, log),
              meta |-> [file_id |-> st.w.curr_file_id,
                        file_offset |-> file_offset, len |-> Len(log)]]

\* Writer::append_log
append_log(st, cmd) ==
    LET log == to_vec(cmd)
        file_offset == st.w.pos
    IN  IF Len(log) + file_offset > MAX_DATA_FILE_SIZE
        THEN LET st1 == create_new_data_file(
                            [st EXCEPT !.w.curr_file_id = @ + 1])
             IN  IF st1.err
                 THEN [st |-> st1, meta |-> NoMeta]
                 ELSE [st |-> write_all(st1, log),
                       meta |-> [file_id |-> st1.w.curr_file_id,
                                 file_offset |-> 0, len |-> Len(log)]]
        ELSE [st |-> write_all(st, log),
              meta |-> [file_id |-> st.w.curr_file_id,
                        file_offset |-> file_offset, len |-> Len(log)]]

\* DashMap::insert on the key directory (set line 226, open line 110)
insert(kd, k, m) == [j \in DOMAIN kd \cup {k} |-> IF j = k THEN m ELSE kd[j]]

\* a remove that leaves the entry in the map
remove_keeps(kd, k) == kd

\* DashMap::remove on the key directory (remove line 243, open line 115)
remove(kd, k) == [j \in DOMAIN kd \ {k} |-> kd[j]]

\* a version check that keeps the cached readers
CacheKept(h) == readers[h]

\* Readers::read_value, lines 276-283: drop the cache on a version change
CacheAfterVersion(h) ==
    IF global_version > local_version[h] THEN {} ELSE readers[h]

\* Readers::read_value, lines 284-291: a cached reader is reused (it keeps
\* reading a file that was removed since); File::open fails on a missing file
OpenOk(c, ln, file_id) == file_id \in c \/ file_id \in ln

\* Readers::read_value, lines 293-303: seek, decode one record; end-of-file
\* or an Rm record hits unreachable!()
DecodeValue(bytes, file_offset) ==
    LET d == Decode(bytes, file_offset) IN
    IF d.kind = "eof" THEN Panic
    ELSE IF d.kind = "err" THEN SeredError
    ELSE IF d.cmd.tag = "Set" THEN ResValue(d.cmd.value)
    ELSE Panic

\* Readers::read_value, lines 284-303, on cache c
ReadRecord(c, fs, ln, file_id, file_offset) ==
    IF ~OpenOk(c, ln, file_id) THEN IoError
    ELSE DecodeValue(fs[file_id], file_offset)

\* rwlock::KvStore::open on an empty directory: 0.dat is created, is current
\* and has a reader
RwOpened ==
    [disk |-> [f \in {0} |-> <<>>], linked |-> {0}, useless_size |-> 0,
     curr_file_id |-> 0, key_dir |-> [k \in {} |-> NoMeta], readers |-> {0},
     file |-> 0, buf |-> <<>>, op |-> NoOp, res |-> Pending, n |-> 0,
     opened |-> "Ok", poisoned |-> FALSE, reopened |-> FALSE]

\* ------------------------------------------------------------------ init
\* KvStore::open on an empty directory: 0.dat is created and is current.
Opened ==
    /\ IS_TEST \in BOOLEAN
    /\ disk = [f \in {0} |-> <<>>]
    /\ linked = {0}
    /\ writer = [curr_file_id |-> 0, useless_size |-> 0, file |-> 0,
                 buf |-> <<>>, pos |-> 0]
    /\ lock = NoHandle
    /\ key_dir = [k \in {} |-> NoMeta]
    /\ global_version = 0
    /\ live = {1}
    /\ readers = [h \in Handles |-> {}]
    /\ local_version = [h \in Handles |-> 0]
    /\ pc = [h \in Handles |-> "idle"]
    /\ op = [h \in Handles |-> NoOp]
    /\ meta = [h \in Handles |-> NoMeta]
    /\ res = [h \in Handles |-> Pending]
    /\ new_key_dir = [k \in {} |-> NoMeta]
    /\ todo = {}
    /\ dels = {}
    /\ olds = {}
    /\ published = NoPub
    /\ opened = "Ok"
    /\ rw = RwOpened
    /\ compacted = FALSE
    /\ abs = [k \in Keys |-> ""]
    /\ lastOk = [k \in Keys |-> "none"]
    /\ lastBy = [k \in Keys |-> NoHandle]
    /\ tainted = [k \in Keys |-> FALSE]
    /\ afterCompact = FALSE
    /\ snap = [h \in Handles |-> NoSnap]
    /\ reopened = FALSE
    /\ nops = 0

\* --------------------------------------------------------------- history
InFlight(k) == lock \in Handles /\ op[lock].key = k
Settled(k) == ~tainted[k] /\ ~InFlight(k)
Compacting == lock \in Handles /\ pc[lock] \in {"copy", "delete", "publish"}

\* What holds when a call of handle h on key k takes effect: the sequential
\* map's value, whether the last mutation of k returned Ok with none under
\* way, its kind and handle, whether the last mutation ran a compaction,
\* whether another handle is compacting; quiet: no Set of k has returned Ok
\* since; seq: the number of the call among the mutating calls (0 for a Get).
SnapAt(h, k, n) ==
    [abs |-> abs[k], settled |-> Settled(k), lastOk |-> lastOk[k],
     by |-> lastBy[k], cmp |-> afterCompact, ovl |-> Compacting /\ lock # h,
     quiet |-> TRUE, seq |-> n, pub |-> published]

InGet(g) == pc[g] \in {"version", "open", "decode"}

\* a Set of key k returns Ok while Gets of k are in flight
MarkSet(o, r) ==
    [g \in Handles |->
        IF r = ResOk /\ o.type = "Set" /\ InGet(g) /\ op[g].key = o.key
        THEN [snap[g] EXCEPT !.quiet = FALSE] ELSE snap[g]]

\* The call o of handle h returns r and, if it held the writer mutex, drops it;
\* a panic while the guard is held poisons the mutex.
Finish(h, o, r) ==
    /\ res' = [res EXCEPT ![h] = r]
    /\ pc' = [pc EXCEPT ![h] = "idle"]
    /\ compacted' = FALSE
    /\ snap' = MarkSet(o, r)
    /\ lock' = IF r = Panic THEN Poisoned ELSE NoHandle
    /\ IF r = ResOk
       THEN /\ lastOk' = [lastOk EXCEPT ![o.key] = o.type]
            /\ lastBy' = [lastBy EXCEPT ![o.key] = h]
            /\ tainted' = [tainted EXCEPT ![o.key] = FALSE]
            /\ afterCompact' = compacted
       ELSE /\ tainted' = [tainted EXCEPT ![o.key] = TRUE]
            /\ afterCompact' = FALSE
            /\ UNCHANGED <<lastOk, lastBy>>

Running ==
    UNCHANGED <<res, compacted, lastOk, lastBy, tainted, afterCompact, snap>>

\* ------------------------------------------------------------------- Get
\* KvStore::get, lines 202-209: load the index and look the key up
GetLookup(h, k) ==
    /\ h \in live /\ pc[h] = "idle"
    /\ op' = [op EXCEPT ![h] = [type |-> "Get", key |-> k, value |-> ""]]
    /\ snap' = [snap EXCEPT ![h] = SnapAt(h, k, 0)]
    /\ IF k \in DOMAIN key_dir
       THEN /\ meta' = [meta EXCEPT ![h] = key_dir[k]]
            /\ pc' = [pc EXCEPT ![h] = "version"]
            /\ res' = [res EXCEPT ![h] = Pending]
       ELSE /\ res' = [res EXCEPT ![h] = ResNone]
            /\ UNCHANGED <<meta, pc>>
    /\ UNCHANGED <<IS_TEST, shared, lock, live, readers, local_version,
                   compactVars, compacted, histVars, reopened, nops, budget>>
    /\ UNCHANGED <<poolVars, serverVars, bootVars, published, opened, rw>>

\* a version check that first waits for the writer mutex
GetVersionLocked(h) ==
    /\ pc[h] = "version" /\ lock = NoHandle
    /\ readers' = [readers EXCEPT ![h] = CacheAfterVersion(h)]
    /\ local_version' = [local_version EXCEPT
                            ![h] = IF global_version > @ THEN global_version ELSE @]
    /\ pc' = [pc EXCEPT ![h] = "open"]
    /\ UNCHANGED <<IS_TEST, shared, lock, live, op, meta, res, compactVars,
                   compacted, histVars, snap, reopened, nops, budget>>
    /\ UNCHANGED <<poolVars, serverVars, bootVars, published, opened, rw>>

\* Readers::read_value, lines 276-283
GetVersion(h) ==
    /\ pc[h] = "version"
    /\ readers' = [readers EXCEPT ![h] = CacheAfterVersion(h)]
    /\ local_version' = [local_version EXCEPT
                            ![h] = IF global_version > @ THEN global_version ELSE @]
    /\ pc' = [pc EXCEPT ![h] = "open"]
    /\ UNCHANGED <<IS_TEST, shared, lock, live, op, meta, res, compactVars,
                   compacted, histVars, snap, reopened, nops, budget>>
    /\ UNCHANGED <<poolVars, serverVars, bootVars, published, opened, rw>>

\* an open that creates the segment file when it is missing
GetOpenCreates(h) ==
    /\ pc[h] = "open"
    /\ readers' = [readers EXCEPT ![h] = @ \cup {meta[h].file_id}]
    /\ linked' = linked \cup {meta[h].file_id}
    /\ pc' = [pc EXCEPT ![h] = "decode"]
    /\ UNCHANGED <<IS_TEST, disk, writer, key_dir, global_version, lock, live,
                   local_version, op, meta, res, compactVars, compacted,
                   histVars, snap, reopened, nops, budget>>
    /\ UNCHANGED <<poolVars, serverVars, bootVars, published, opened, rw>>

\* Readers::read_value, lines 284-291
GetOpen(h) ==
    /\ pc[h] = "open"
    /\ IF OpenOk(readers[h], linked, meta[h].file_id)
       THEN /\ readers' = [readers EXCEPT ![h] = @ \cup {meta[h].file_id}]
            /\ pc' = [pc EXCEPT ![h] = "decode"]
            /\ UNCHANGED res
       ELSE /\ res' = [res EXCEPT ![h] = IoError]
            /\ pc' = [pc EXCEPT ![h] = "idle"]
            /\ UNCHANGED readers
    /\ UNCHANGED <<IS_TEST, shared, lock, live, local_version, op, meta,
                   compactVars, compacted, histVars, snap, reopened, nops, budget>>
    /\ UNCHANGED <<poolVars, serverVars, bootVars, published, opened, rw>>

\* Readers::read_value, lines 293-303
GetDecode(h) ==
    /\ pc[h] = "decode"
    /\ res' = [res EXCEPT
                  ![h] = DecodeValue(disk[meta[h].file_id], meta[h].file_offset)]
    /\ pc' = [pc EXCEPT ![h] = "idle"]
    /\ UNCHANGED <<IS_TEST, shared, lock, live, readers, local_version, op, meta,
                   compactVars, compacted, histVars, snap, reopened, nops, budget>>
    /\ UNCHANGED <<poolVars, serverVars, bootVars, published, opened, rw>>

\* ------------------------------------------------------------- Set / Rm
\* a mutation that starts without regard to the writer mutex
CanLockAny(h) == h \in live /\ pc[h] = "idle" /\ nops < budget

CanLock(h) == h \in live /\ pc[h] = "idle" /\ lock \in {NoHandle, Poisoned}
                /\ nops < budget

\* KvStore::set, lines 216-221: take the writer mutex (lock().unwrap() panics
\* on a poisoned mutex) and append the record
SetAppend(h, k, v) ==
    LET o == [type |-> "Set", key |-> k, value |-> v]
        sn == [snap EXCEPT ![h] = [NoSnap EXCEPT !.seq = nops + 1]]
    IN
    /\ CanLock(h)
    /\ nops' = nops + 1
    /\ reopened' = FALSE
    /\ op' = [op EXCEPT ![h] = o]
    /\ IF lock = Poisoned
       THEN /\ res' = [res EXCEPT ![h] = Panic]
            /\ snap' = sn
            /\ UNCHANGED <<writer, disk, linked, meta, pc, lock, compacted,
                           histVars>>
       ELSE LET a == append_log(FsState, SetCmd(k, v)) IN
            /\ writer' = a.st.w
            /\ disk' = a.st.disk
            /\ linked' = a.st.linked
            /\ meta' = [meta EXCEPT ![h] = a.meta]
            /\ UNCHANGED abs
            /\ IF a.st.err
               THEN /\ res' = [res EXCEPT ![h] = IoError]
                    /\ tainted' = [tainted EXCEPT ![k] = TRUE]
                    /\ afterCompact' = FALSE
                    /\ snap' = sn
                    /\ UNCHANGED <<pc, lock, compacted, lastOk, lastBy>>
               ELSE /\ pc' = [pc EXCEPT ![h] = "insert"]
                    /\ lock' = h
                    /\ res' = [res EXCEPT ![h] = Pending]
                    /\ afterCompact' = FALSE
                    /\ snap' = sn
                    /\ UNCHANGED <<compacted, lastOk, lastBy, tainted>>
    /\ UNCHANGED <<IS_TEST, key_dir, global_version, live, readers,
                   local_version, compactVars, budget>>
    /\ UNCHANGED <<poolVars, serverVars, bootVars, published, opened, rw>>

\* KvStore::set, lines 226-228: insert into the published map
SetInsert(h) ==
    /\ pc[h] = "insert" /\ lock = h
    /\ key_dir' = insert(key_dir, op[h].key, meta[h])
    /\ writer' = [writer EXCEPT !.useless_size =
                     IF op[h].key \in DOMAIN key_dir
                     THEN @ + key_dir[op[h].key].len ELSE @]
    /\ abs' = [abs EXCEPT ![op[h].key] = op[h].value]
    /\ pc' = [pc EXCEPT ![h] = "flush"]
    /\ UNCHANGED <<IS_TEST, disk, linked, lock, global_version, live, readers,
                   local_version, op, meta, res, compactVars, compacted,
                   lastOk, lastBy, tainted, afterCompact, snap, reopened, nops, budget>>
    /\ UNCHANGED <<poolVars, serverVars, bootVars, published, opened, rw>>

\* an early return that has already logged the Rm record
RmAbsentLogged(h, k) ==
    LET a == append_log(FsState, RmCmd(k)) IN
    /\ res' = [res EXCEPT ![h] = RemoveNonexistKey]
    /\ writer' = a.st.w
    /\ disk' = a.st.disk
    /\ linked' = a.st.linked
    /\ afterCompact' = FALSE
    /\ UNCHANGED <<key_dir, pc, lock, compacted, abs, lastOk, lastBy, tainted>>
    /\ UNCHANGED <<poolVars, serverVars, bootVars, published, opened, rw>>

\* KvStore::remove, lines 245-247: the key is not in the map
RmAbsent(h, k) ==
    /\ res' = [res EXCEPT ![h] = RemoveNonexistKey]
    /\ afterCompact' = FALSE
    /\ UNCHANGED <<writer, disk, linked, key_dir, pc, lock, compacted, abs,
                   lastOk, lastBy, tainted>>
    /\ UNCHANGED <<poolVars, serverVars, bootVars, published, opened, rw>>

\* KvStore::remove, lines 242-247: take the mutex, remove the key from the
\* published map or return RemoveNonexistKey
RmLookup(h, k) ==
    /\ CanLock(h)
    /\ nops' = nops + 1
    /\ reopened' = FALSE
    /\ op' = [op EXCEPT ![h] = [type |-> "Rm", key |-> k, value |-> ""]]
    /\ snap' = [snap EXCEPT ![h] = SnapAt(h, k, nops + 1)]
    /\ IF lock = Poisoned
       THEN /\ res' = [res EXCEPT ![h] = Panic]
            /\ UNCHANGED <<writer, disk, linked, key_dir, pc, lock, compacted,
                           histVars>>
       ELSE IF k \in DOMAIN key_dir
       THEN /\ key_dir' = remove(key_dir, k)
            /\ writer' = [writer EXCEPT !.useless_size = @ + key_dir[k].len]
            /\ abs' = [abs EXCEPT ![k] = ""]
            /\ pc' = [pc EXCEPT ![h] = "rm_append"]
            /\ lock' = h
            /\ res' = [res EXCEPT ![h] = Pending]
            /\ afterCompact' = FALSE
            /\ UNCHANGED <<disk, linked, compacted, lastOk, lastBy, tainted>>
       ELSE RmAbsent(h, k)
    /\ UNCHANGED <<IS_TEST, global_version, live, readers, local_version, meta,
                   compactVars, budget>>
    /\ UNCHANGED <<poolVars, serverVars, bootVars, published, opened, rw>>

\* KvStore::remove, lines 248-249
RmAppend(h) ==
    /\ pc[h] = "rm_append" /\ lock = h
    /\ LET a == append_log(FsState, RmCmd(op[h].key)) IN
       /\ writer' = a.st.w
       /\ disk' = a.st.disk
       /\ linked' = a.st.linked
       /\ IF a.st.err
          THEN Finish(h, op[h], IoError)
          ELSE /\ pc' = [pc EXCEPT ![h] = "flush"]
               /\ UNCHANGED lock
               /\ Running
    /\ UNCHANGED <<IS_TEST, key_dir, global_version, live, readers,
                   local_version, op, meta, compactVars, abs, reopened, nops,
                   budget>>
    /\ UNCHANGED <<poolVars, serverVars, bootVars, published, opened, rw>>

\* Writer::append_log returning an I/O error that the operating system
\* raised (no space, no permission): at = "create" in create_new during a
\* roll-over, where curr_file_id has been advanced twice and the BufWriter is
\* still the old one (lines 325, 340-343); at = "write" in write_all, before
\* any byte of the record was taken (line 329).
append_log_fails(st, cmd, at) ==
    IF at = "create"
    THEN [st EXCEPT !.w.curr_file_id = @ + 2, !.err = TRUE]
    ELSE [st EXCEPT !.err = TRUE]

\* whether append_log of cmd can fail at that place
CanFail(cmd, at) ==
    at = "create" => Len(to_vec(cmd)) + writer.pos > MAX_DATA_FILE_SIZE

\* KvStore::set, lines 216-221, when append_log returns an I/O error: the
\* `?` returns it
SetAppendFails(h, k, v, at) ==
    /\ CanLock(h) /\ lock = NoHandle
    /\ CanFail(SetCmd(k, v), at)
    /\ nops' = nops + 1
    /\ reopened' = FALSE
    /\ op' = [op EXCEPT ![h] = [type |-> "Set", key |-> k, value |-> v]]
    /\ writer' = append_log_fails(FsState, SetCmd(k, v), at).w
    /\ meta' = [meta EXCEPT ![h] = NoMeta]
    /\ res' = [res EXCEPT ![h] = IoError]
    /\ tainted' = [tainted EXCEPT ![k] = TRUE]
    /\ afterCompact' = FALSE
    /\ snap' = [snap EXCEPT ![h] = [NoSnap EXCEPT !.seq = nops + 1]]
    /\ UNCHANGED <<disk, linked, pc, lock, compacted, abs, lastOk, lastBy>>
    /\ UNCHANGED <<IS_TEST, key_dir, global_version, live, readers,
                   local_version, compactVars, budget>>
    /\ UNCHANGED <<poolVars, serverVars, bootVars, published, opened, rw>>

\* KvStore::remove, lines 248-249, when append_log returns an I/O error: the
\* `?` returns it, after the key was taken out of the index (line 243)
RmAppendFails(h, at) ==
    /\ pc[h] = "rm_append" /\ lock = h
    /\ CanFail(RmCmd(op[h].key), at)
    /\ writer' = append_log_fails(FsState, RmCmd(op[h].key), at).w
    /\ Finish(h, op[h], IoError)
    /\ UNCHANGED <<disk, linked>>
    /\ UNCHANGED <<IS_TEST, key_dir, global_version, live, readers,
                   local_version, op, meta, compactVars, abs, reopened, nops,
                   budget>>
    /\ UNCHANGED <<poolVars, serverVars, bootVars, published, opened, rw>>

\* KvStore::set lines 231-233, KvStore::remove lines 252-254: flush in the
\* test profile
MutFlush(h) ==
    /\ pc[h] = "flush" /\ lock = h
    /\ disk' = IF IS_TEST THEN FlushFs(FsState).disk ELSE disk
    /\ writer' = IF IS_TEST THEN FlushFs(FsState).w ELSE writer
    /\ pc' = [pc EXCEPT ![h] = "check"]
    /\ UNCHANGED <<IS_TEST, linked, lock, key_dir, global_version, live,
                   readers, local_version, op, meta, res, compactVars,
                   compacted, histVars, snap, reopened, nops, budget>>
    /\ UNCHANGED <<poolVars, serverVars, bootVars, published, opened, rw>>

\* a Set or Rm that returns without looking at useless_size
MutCheckNever(h) ==
    /\ pc[h] = "check" /\ lock = h
    /\ IF FALSE
       THEN /\ pc' = [pc EXCEPT ![h] = "compact"]
            /\ UNCHANGED lock
            /\ Running
       ELSE Finish(h, op[h], ResOk)
    /\ UNCHANGED <<IS_TEST, shared, live, readers, local_version, op, meta,
                   compactVars, abs, reopened, nops, budget>>
    /\ UNCHANGED <<poolVars, serverVars, bootVars, published, opened, rw>>

\* KvStore::set lines 234-237, KvStore::remove lines 255-258: compact or
\* return
MutCheck(h) ==
    /\ pc[h] = "check" /\ lock = h
    /\ IF writer.useless_size > COMPACT_THRESHOLD
       THEN /\ pc' = [pc EXCEPT ![h] = "compact"]
            /\ UNCHANGED lock
            /\ Running
       ELSE Finish(h, op[h], ResOk)
    /\ UNCHANGED <<IS_TEST, shared, live, readers, local_version, op, meta,
                   compactVars, abs, reopened, nops, budget>>
    /\ UNCHANGED <<poolVars, serverVars, bootVars, published, opened, rw>>

\* ------------------------------------------------------------ compaction
\* a compaction that starts is overlapped by every Get then in flight
MarkOverlap(h) ==
    [g \in Handles |->
        IF g # h /\ InGet(g) THEN [snap[g] EXCEPT !.ovl = TRUE] ELSE snap[g]]

\* a compaction that goes on writing into the segment the writer is open on
CompactStartInPlace(h) ==
    /\ pc[h] = "compact" /\ lock = h
    /\ LET st == FlushFs(FsState) IN
       /\ writer' = st.w
       /\ disk' = st.disk
       /\ linked' = st.linked
       /\ IF st.err
          THEN /\ Finish(h, op[h], IoError)
               /\ UNCHANGED compactVars
          ELSE /\ new_key_dir' = key_dir
               /\ olds' = linked
               /\ todo' = DOMAIN key_dir
               /\ dels' = IF DOMAIN key_dir = {} THEN readers[h] ELSE {}
               /\ pc' = [pc EXCEPT ![h] = IF DOMAIN key_dir = {}
                                          THEN "delete" ELSE "copy"]
               /\ compacted' = TRUE
               /\ snap' = MarkOverlap(h)
               /\ UNCHANGED <<lock, res, lastOk, lastBy, tainted, afterCompact>>
    /\ UNCHANGED <<IS_TEST, key_dir, global_version, live, readers,
                   local_version, op, meta, abs, reopened, nops, budget>>
    /\ UNCHANGED <<poolVars, serverVars, bootVars, published, opened, rw>>

\* KvStore::compact, lines 156-159: flush, roll to a fresh segment, copy the
\* published map
CompactStart(h) ==
    /\ pc[h] = "compact" /\ lock = h
    /\ LET st == create_new_data_file(FlushFs(FsState)) IN
       /\ writer' = st.w
       /\ disk' = st.disk
       /\ linked' = st.linked
       /\ IF st.err
          THEN /\ Finish(h, op[h], IoError)
               /\ UNCHANGED compactVars
          ELSE /\ new_key_dir' = key_dir
               /\ olds' = linked
               /\ todo' = DOMAIN key_dir
               /\ dels' = IF DOMAIN key_dir = {} THEN readers[h] ELSE {}
               /\ pc' = [pc EXCEPT ![h] = IF DOMAIN key_dir = {}
                                          THEN "delete" ELSE "copy"]
               /\ compacted' = TRUE
               /\ snap' = MarkOverlap(h)
               /\ UNCHANGED <<lock, res, lastOk, lastBy, tainted, afterCompact>>
    /\ UNCHANGED <<IS_TEST, key_dir, global_version, live, readers,
                   local_version, op, meta, abs, reopened, nops, budget>>
    /\ UNCHANGED <<poolVars, serverVars, bootVars, published, opened, rw>>

\* KvStore::compact, lines 160-170, one iteration: read the value through
\* this handle's readers, append it, store the new placement in the copy
CompactCopy(h) ==
    /\ pc[h] = "copy" /\ lock = h
    /\ \E k \in todo :
         LET m == new_key_dir[k]
             c == CacheAfterVersion(h)
             r == ReadRecord(c, disk, linked, m.file_id, m.file_offset)
             a == append_log(FsState, SetCmd(k, r.val))
             c2 == IF OpenOk(c, linked, m.file_id) THEN c \cup {m.file_id} ELSE c
         IN
         /\ readers' = [readers EXCEPT ![h] = c2]
         /\ local_version' = [local_version EXCEPT
                      ![h] = IF global_version > @ THEN global_version ELSE @]
         /\ IF r.kind # "Value"
            THEN /\ Finish(h, op[h], r)
                 /\ UNCHANGED <<writer, disk, linked, compactVars>>
            ELSE /\ writer' = a.st.w
                 /\ disk' = a.st.disk
                 /\ linked' = a.st.linked
                 /\ IF a.st.err
                    THEN /\ Finish(h, op[h], IoError)
                         /\ UNCHANGED compactVars
                    ELSE /\ new_key_dir' = [new_key_dir EXCEPT ![k] = a.meta]
                         /\ UNCHANGED olds
                         /\ todo' = todo \ {k}
                         /\ dels' = IF todo = {k} THEN c2 ELSE {}
                         /\ pc' = [pc EXCEPT ![h] = IF todo = {k}
                                                    THEN "delete" ELSE "copy"]
                         /\ UNCHANGED lock
                         /\ Running
    /\ UNCHANGED <<IS_TEST, key_dir, global_version, live, op, meta, abs,
                   reopened, nops, budget>>
    /\ UNCHANGED <<poolVars, serverVars, bootVars, published, opened, rw>>

\* KvStore::compact, lines 175-177, one iteration: remove a file this
\* handle's reader cache names
CompactDelete(h) ==
    /\ pc[h] = "delete" /\ lock = h
    /\ \E f \in dels :
         IF f \in linked
         THEN /\ linked' = linked \ {f}
              /\ dels' = dels \ {f}
              /\ UNCHANGED <<pc, lock>>
              /\ Running
         ELSE /\ Finish(h, op[h], IoError)
              /\ UNCHANGED <<linked, dels>>
    /\ UNCHANGED <<IS_TEST, disk, writer, key_dir, global_version, live,
                   readers, local_version, op, meta, new_key_dir, todo, olds,
                   abs, reopened, nops, budget>>
    /\ UNCHANGED <<poolVars, serverVars, bootVars, published, opened, rw>>

\* a compaction that leaves global_version as it is
CompactVersionSkips(h) ==
    /\ pc[h] = "delete" /\ lock = h /\ dels = {}
    /\ pc' = [pc EXCEPT ![h] = "publish"]
    /\ UNCHANGED <<IS_TEST, disk, linked, writer, lock, key_dir, live, readers,
                   local_version, op, meta, res, compactVars, compacted,
                   histVars, snap, reopened, nops, budget, global_version>>
    /\ UNCHANGED <<poolVars, serverVars, bootVars, published, opened, rw>>

\* KvStore::compact, line 181
CompactVersion(h) ==
    /\ pc[h] = "delete" /\ lock = h /\ dels = {}
    /\ global_version' = global_version + 1
    /\ pc' = [pc EXCEPT ![h] = "publish"]
    /\ UNCHANGED <<IS_TEST, disk, linked, writer, lock, key_dir, live, readers,
                   local_version, op, meta, res, compactVars, compacted,
                   histVars, snap, reopened, nops, budget>>
    /\ UNCHANGED <<poolVars, serverVars, bootVars, published, opened, rw>>

\* KvStore::compact, lines 185-189, and the return of set / remove
CompactPublish(h) ==
    /\ pc[h] = "publish" /\ lock = h
    /\ key_dir' = new_key_dir
    /\ writer' = [writer EXCEPT !.useless_size = 0]
    /\ published' = [n |-> published.n + 1, olds |-> olds]
    /\ Finish(h, op[h], ResOk)
    /\ UNCHANGED <<IS_TEST, disk, linked, global_version, live, readers,
                   local_version, op, meta, compactVars, abs, reopened, nops,
                   budget>>
    /\ UNCHANGED <<poolVars, serverVars, bootVars, opened, rw>>

\* ------------------------------------------------------- clone and flush
\* a clone that starts with a copy of its parent's reader cache
CloneCopiesCache(h) ==
    /\ h \in live /\ pc[h] = "idle"
    /\ Handles \ live # {}
    /\ LET n == CHOOSE x \in Handles \ live : \A y \in Handles \ live : x <= y IN
       /\ live' = live \cup {n}
       /\ local_version' = [local_version EXCEPT ![n] = local_version[h]]
       /\ readers' = [readers EXCEPT ![n] = readers[h]]
    /\ UNCHANGED <<IS_TEST, shared, lock, pc, op, meta, res, compactVars,
                   compacted, histVars, snap, reopened, nops, budget>>
    /\ UNCHANGED <<poolVars, serverVars, bootVars, published, opened, rw>>

\* impl Clone for KvStore
Clone(h) ==
    /\ h \in live /\ pc[h] = "idle"
    /\ Handles \ live # {}
    /\ LET n == CHOOSE x \in Handles \ live : \A y \in Handles \ live : x <= y IN
       /\ live' = live \cup {n}
       /\ local_version' = [local_version EXCEPT ![n] = local_version[h]]
       /\ readers' = [readers EXCEPT ![n] = {}]
    /\ UNCHANGED <<IS_TEST, shared, lock, pc, op, meta, res, compactVars,
                   compacted, histVars, snap, reopened, nops, budget>>
    /\ UNCHANGED <<poolVars, serverVars, bootVars, published, opened, rw>>

\* KvStore::flush
Flush(h) ==
    /\ h \in live /\ pc[h] = "idle" /\ lock = NoHandle
    /\ writer.buf # <<>>
    /\ disk' = FlushFs(FsState).disk
    /\ writer' = FlushFs(FsState).w
    /\ UNCHANGED <<IS_TEST, linked, lock, key_dir, global_version, live,
                   readers, local_version, pc, op, meta, res, compactVars,
                   compacted, histVars, snap, reopened, nops, budget>>
    /\ UNCHANGED <<poolVars, serverVars, bootVars, published, opened, rw>>

\* ---------------------------------------------------------------- reopen
\* KvStore::open, lines 100-121: replay one file from file_offset on
RECURSIVE ReplayFile(_, _, _, _)
ReplayFile(bytes, file_id, file_offset, st) ==
    LET d == Decode(bytes, file_offset)
        new_offset == file_offset + d.len
        k == d.cmd.key
        had == k \in DOMAIN st.key_dir
        gone == IF had THEN st.key_dir[k].len ELSE 0
    IN  IF st.err \/ d.kind = "eof" THEN st
        ELSE IF d.kind = "err" THEN [st EXCEPT !.err = TRUE]
        ELSE IF d.cmd.tag = "Set"
        THEN ReplayFile(bytes, file_id, new_offset,
                 [st EXCEPT !.key_dir =
                      insert(st.key_dir, k,
                             [file_id |-> file_id, file_offset |-> file_offset,
                              len |-> new_offset - file_offset]),
                  !.useless_size = @ + gone])
        ELSE ReplayFile(bytes, file_id, new_offset,
                 [st EXCEPT !.key_dir = remove(st.key_dir, k),
                            !.useless_size = @ + gone])

\* KvStore::open, lines 85-122: the files in the order read_dir lists them
RECURSIVE ReplayDir(_, _, _)
ReplayDir(order, fs, st) ==
    IF order = <<>> THEN st
    ELSE ReplayDir(Tail(order), fs,
                   ReplayFile(fs[Head(order)], Head(order), 0, st))

\* the orders in which read_dir may list the files S
Listings(S) ==
    {s \in [1..Cardinality(S) -> S] : \A i, j \in 1..Cardinality(S) :
                                          s[i] = s[j] => i = j}

\* an open that continues in the lowest segment it finds
MinOf(S) == IF S = {} THEN 0 ELSE CHOOSE x \in S : \A y \in S : x <= y

MaxOf(S) == IF S = {} THEN 0 ELSE CHOOSE x \in S : \A y \in S : y <= x

\* the leading bytes of a multi-byte character of a key or a value, cut off
\* before its last byte: not valid UTF-8
Half == "<half>"

\* String::from_utf8 as read_to_string applies it (kvstore.rs:96)
Utf8(bytes) == \A i \in 1..Len(bytes) : bytes[i] # Half

\* KvStore::open, lines 85-122, with the read_to_string(..).unwrap() of lines
\* 95-96: the first file that is not UTF-8 panics, the first record that
\* does not parse returns Err
RECURSIVE OpenDir(_, _, _)
OpenDir(order, fs, st) ==
    IF order = <<>> \/ st.err \/ st.panic THEN st
    ELSE IF ~Utf8(fs[Head(order)]) THEN [st EXCEPT !.panic = TRUE]
    ELSE OpenDir(Tail(order), fs,
                 ReplayFile(fs[Head(order)], Head(order), 0, st))

\* The process ends while its buffered bytes are being written (power loss,
\* or a write that failed part-way): the first n of them have reached the
\* file, with half = TRUE followed by part of a character of the key or value
\* that comes next.  KvStore::open then runs on the directory.
CrashOpen(n, half) ==
    /\ pc[1] = "idle" /\ live = {1}
    /\ lock = NoHandle
    /\ nops > 0
    /\ n < Len(writer.buf)
    /\ half => writer.buf[n + 1] \notin {"Set", "Rm"}
    /\ LET tail == SubSeq(writer.buf, 1, n) \o (IF half THEN <<Half>> ELSE <<>>)
           onDisk == [f \in linked |->
                         IF f = writer.file THEN disk[f] \o tail ELSE disk[f]]
           id == MaxOf(linked)
       IN \E order \in Listings(linked) :
            LET st == OpenDir(order, onDisk,
                          [key_dir |-> [k \in {} |-> NoMeta],
                           useless_size |-> 0, err |-> FALSE, panic |-> FALSE])
            IN
            /\ disk' = onDisk
            /\ key_dir' = st.key_dir
            /\ writer' = [curr_file_id |-> id, useless_size |-> st.useless_size,
                          file |-> id, buf |-> <<>>, pos |-> Len(onDisk[id])]
            /\ live' = IF st.err \/ st.panic THEN {} ELSE {1}
            /\ opened' = IF st.panic THEN "panic"
                         ELSE IF st.err THEN "Err" ELSE "Ok"
    /\ reopened' = FALSE
    /\ tainted' = [k \in Keys |-> TRUE]
    /\ global_version' = 0
    /\ readers' = [h \in Handles |-> {}]
    /\ local_version' = [h \in Handles |-> 0]
    /\ op' = [h \in Handles |-> NoOp]
    /\ meta' = [h \in Handles |-> NoMeta]
    /\ res' = [h \in Handles |-> Pending]
    /\ snap' = [h \in Handles |-> NoSnap]
    /\ new_key_dir' = [k \in {} |-> NoMeta]
    /\ todo' = {}
    /\ dels' = {}
    /\ olds' = {}
    /\ published' = NoPub
    /\ afterCompact' = FALSE
    /\ UNCHANGED <<IS_TEST, linked, lock, pc, compacted, abs, lastOk, lastBy,
                   nops, budget>>
    /\ UNCHANGED <<poolVars, serverVars, bootVars, rw>>

\* The process ends (graceful: the writer is dropped, which flushes it;
\* otherwise the buffered bytes are lost) and KvStore::open runs on the
\* directory it leaves.
Reopen(graceful) ==
    /\ \A h \in Handles : pc[h] = "idle"
    /\ lock # NoHandle => lock = Poisoned
    /\ nops > 0
    /\ LET fs == IF graceful THEN FlushFs(FsState).disk ELSE disk
           onDisk == [f \in linked |-> fs[f]]
           id == MaxOf(linked)
       IN \E order \in Listings(linked) :
            LET st == ReplayDir(order, onDisk,
                          [key_dir |-> [k \in {} |-> NoMeta],
                           useless_size |-> 0, err |-> FALSE])
            IN
            /\ disk' = [f \in linked \cup {id} |->
                           IF f \in linked THEN onDisk[f] ELSE <<>>]
            /\ linked' = linked \cup {id}
            /\ key_dir' = st.key_dir
            /\ writer' = [curr_file_id |-> id, useless_size |-> st.useless_size,
                          file |-> id, buf |-> <<>>, pos |-> Len(disk'[id])]
            /\ live' = IF st.err THEN {} ELSE {1}
            /\ opened' = IF st.err THEN "Err" ELSE "Ok"
            /\ reopened' = (graceful \/ writer.buf = <<>>)
            /\ tainted' = IF graceful \/ writer.buf = <<>>
                          THEN tainted ELSE [k \in Keys |-> TRUE]
    /\ lock' = NoHandle
    /\ global_version' = 0
    /\ readers' = [h \in Handles |-> {}]
    /\ local_version' = [h \in Handles |-> 0]
    /\ op' = [h \in Handles |-> NoOp]
    /\ meta' = [h \in Handles |-> NoMeta]
    /\ res' = [h \in Handles |-> Pending]
    /\ snap' = [h \in Handles |-> NoSnap]
    /\ new_key_dir' = [k \in {} |-> NoMeta]
    /\ todo' = {}
    /\ dels' = {}
    /\ olds' = {}
    /\ published' = NoPub
    /\ afterCompact' = FALSE
    /\ UNCHANGED <<IS_TEST, pc, compacted, abs, lastOk, lastBy, nops, budget>>
    /\ UNCHANGED <<poolVars, serverVars, bootVars, rw>>

\* ------------------------------------------------------- rwlock::KvStore
\* The alternative engine, kvstore.rs:780-1053: one RwLock around the whole
\* store.  Its calls are sequential here, so each is one function of the
\* record rw; a call in progress has res = ResOk until it fails.

\* the order in which a BTreeMap yields the ids S
RECURSIVE BTreeOrder(_)
BTreeOrder(S) ==
    IF S = {} THEN <<>>
    ELSE LET lo == CHOOSE x \in S : \A y \in S : x <= y
         IN  <<lo>> \o BTreeOrder(S \ {lo})

\* io::BufWriter::flush, also run by stream_position and by dropping the
\* writer
rw_flush(r) == [r EXCEPT !.disk[r.file] = @ \o r.buf, !.buf = <<>>]

\* Inner::create_new_data_file: open with create(true) and append(true)
\* never refuses an existing file; the replaced BufWriter is dropped
rw_create_new_data_file(r) ==
    LET id == r.curr_file_id + 1
        fl == rw_flush(r)
    IN  [fl EXCEPT !.curr_file_id = id,
                   !.disk = [f \in DOMAIN fl.disk \cup {id} |->
                                IF f = id /\ id \notin fl.linked THEN <<>>
                                ELSE fl.disk[f]],
                   !.linked = @ \cup {id},
                   !.file = id,
                   !.readers = @ \cup {id}]

\* Inner::set_impl
rw_set_impl(r, key, value) ==
    LET log == to_vec(SetCmd(key, value))
        r0 == rw_flush(r)
        pos == Len(r0.disk[r0.file])
        rolls == Len(log) + pos > MAX_DATA_FILE_SIZE
        r1 == IF rolls
              THEN rw_create_new_data_file([r0 EXCEPT !.curr_file_id = @ + 1])
              ELSE r0
        m == [file_id |-> r1.curr_file_id,
              file_offset |-> IF rolls THEN 0 ELSE pos, len |-> Len(log)]
        gone == IF key \in DOMAIN r1.key_dir THEN r1.key_dir[key].len ELSE 0
    IN  [r1 EXCEPT !.buf = @ \o log,
                   !.key_dir = insert(r1.key_dir, key, m),
                   !.useless_size = @ + gone]

\* Inner::get_impl: readers[&file_id] panics on an id without reader; the
\* reader sees the bytes that reached the file
rw_get_impl(rds, fs, file_id, file_offset) ==
    IF file_id \notin rds THEN Panic ELSE DecodeValue(fs[file_id], file_offset)

\* Inner::compact, lines 981-992: the entries of the old index, in the order
\* the HashMap yields them, are read through the old readers and set again
RECURSIVE rw_copy(_, _, _, _)
rw_copy(order, rds, old, r) ==
    IF order = <<>> \/ r.res # ResOk THEN r
    ELSE LET k == Head(order) IN
         IF k \notin DOMAIN old THEN rw_copy(Tail(order), rds, old, r)
         ELSE LET v == rw_get_impl(rds, r.disk, old[k].file_id,
                                   old[k].file_offset)
              IN  IF v.kind # "Value" THEN [r EXCEPT !.res = v]
                  ELSE rw_copy(Tail(order), rds, old, rw_set_impl(r, k, v.val))

\* Inner::compact
rw_compact(r, order) ==
    LET r0 == rw_flush(r)
        rds == r0.readers
        old == r0.key_dir
        r1 == rw_create_new_data_file(
                  [r0 EXCEPT !.curr_file_id = @ + 1, !.useless_size = 0,
                             !.readers = {}])
        r2 == rw_copy(order, rds, old, [r1 EXCEPT !.key_dir = [k \in {} |-> NoMeta]])
    IN  IF r2.res # ResOk THEN r2
        ELSE IF rds \subseteq r2.linked
        THEN [r2 EXCEPT !.linked = @ \ rds]
        ELSE [r2 EXCEPT !.res = IoError]

\* set and remove, lines 1020-1025 and 1043-1049: flush in the test
\* profile, then compact above the threshold
rw_after_write(r, order) ==
    LET r1 == IF IS_TEST THEN rw_flush(r) ELSE r IN
    IF r1.useless_size > COMPACT_THRESHOLD THEN rw_compact(r1, order) ELSE r1

\* KvsEngine::set
rw_set(r, key, value, order) ==
    rw_after_write(rw_set_impl([r EXCEPT !.res = ResOk], key, value), order)

\* KvsEngine::remove
rw_remove(r, key, order) ==
    IF key \notin DOMAIN r.key_dir THEN [r EXCEPT !.res = RemoveNonexistKey]
    ELSE LET log == to_vec(RmCmd(key))
             r0 == rw_flush([r EXCEPT !.res = ResOk,
                                      !.useless_size = @ + r.key_dir[key].len,
                                      !.key_dir = remove(r.key_dir, key)])
             r1 == IF Len(log) + Len(r0.disk[r0.file]) > MAX_DATA_FILE_SIZE
                   THEN rw_create_new_data_file(
                            [r0 EXCEPT !.curr_file_id = @ + 1])
                   ELSE r0
         IN  rw_after_write([r1 EXCEPT !.buf = @ \o log], order)

\* KvsEngine::get
rw_get(r, key) ==
    IF r.poisoned THEN Panic
    ELSE IF key \notin DOMAIN r.key_dir THEN ResNone
    ELSE rw_get_impl(r.readers, r.disk, r.key_dir[key].file_id,
                     r.key_dir[key].file_offset)

\* a mutating call o on the store r: the write lock is poisoned by a panic
\* under it, and lock().unwrap() panics on a poisoned lock
rw_call(r, o, order) ==
    IF r.poisoned THEN [r EXCEPT !.res = Panic]
    ELSE LET r1 == IF o.type = "Set" THEN rw_set(r, o.key, o.value, order)
                   ELSE rw_remove(r, o.key, order)
         IN  [r1 EXCEPT !.poisoned = (r1.res = Panic)]

\* the store is dropped, which flushes its writer, and rwlock::KvStore::open
\* runs on its directory: the files are collected in a BTreeMap and replayed
\* in its order; writing continues in the highest id
rw_open(r) ==
    LET r0 == rw_flush(r)
        st == ReplayDir(BTreeOrder(r0.linked), r0.disk,
                        [key_dir |-> [k \in {} |-> NoMeta], useless_size |-> 0,
                         err |-> FALSE])
        id == MaxOf(r0.linked)
    IN  [r0 EXCEPT !.key_dir = st.key_dir, !.useless_size = st.useless_size,
                   !.curr_file_id = id, !.file = id,
                   !.readers = r0.linked \cup {id},
                   !.disk = [f \in DOMAIN r0.disk \cup {id} |->
                                IF f \in DOMAIN r0.disk THEN r0.disk[f] ELSE <<>>],
                   !.linked = @ \cup {id},
                   !.poisoned = FALSE,
                   !.opened = IF st.err THEN "Err" ELSE "Ok"]

\* the caller of both engines: the mutating call the lock-free store has
\* just answered is made on the rwlock store
RwApply ==
    /\ pc[1] = "idle" /\ res[1] # Pending
    /\ rw.n < nops /\ rw.opened = "Ok"
    /\ \E order \in Listings(Keys) :
          rw' = [rw_call(rw, op[1], order) EXCEPT !.n = nops, !.op = op[1]]
    /\ UNCHANGED <<IS_TEST, disk, linked, writer, lock, key_dir, global_version,
                   live, readers, local_version, pc, op, meta, res, new_key_dir,
                   todo, dels, olds, compacted, abs, lastOk, lastBy, tainted,
                   afterCompact, snap, reopened, nops, budget, published,
                   opened>>
    /\ UNCHANGED <<poolVars, serverVars, bootVars>>

\* the caller reopens the rwlock store after the lock-free one
RwReopen ==
    /\ reopened /\ ~rw.reopened /\ rw.n = nops
    /\ rw' = [rw_open(rw) EXCEPT !.reopened = TRUE]
    /\ UNCHANGED <<IS_TEST, disk, linked, writer, lock, key_dir, global_version,
                   live, readers, local_version, pc, op, meta, res, new_key_dir,
                   todo, dels, olds, compacted, abs, lastOk, lastBy, tainted,
                   afterCompact, snap, reopened, nops, budget, published,
                   opened>>
    /\ UNCHANGED <<poolVars, serverVars, bootVars>>

\* --------------------------------------------------------- server start
Engines == {"kvs", "sled"}
\* --engine: an engine, absent, or a name that is no engine
EngineArgs == Engines \cup {"none", "other"}
NoDir == [exists |-> FALSE, conf |-> FALSE, kvs |-> FALSE]
BootOff == [pc |-> "off", cli_engine |-> "none", real_engine |-> "none", n |-> 0]

\* no server process: the store is used as a library
NoBoot == dir = NoDir /\ boot = BootOff

\* get_real_engine(cli_engine, path), d being the state of path
get_real_engine(cli_engine, d) ==
    IF cli_engine \notin Engines \cup {"none"} THEN "Err"
    ELSE IF d.exists
    THEN IF d.conf
         THEN IF cli_engine = "kvs" THEN "Err" ELSE "sled"
         ELSE IF d.kvs
         THEN IF cli_engine = "sled" THEN "Err" ELSE "kvs"
         ELSE IF cli_engine # "none" THEN cli_engine
         ELSE "kvs"
    ELSE IF cli_engine # "none" THEN cli_engine
    ELSE "kvs"

\* kvs-server is started with --engine e (or without it)
ServerStart(e) ==
    /\ boot.pc = "off" /\ boot.n < MaxBoots
    /\ boot' = [pc |-> "select", cli_engine |-> e, real_engine |-> "none",
                n |-> boot.n + 1]
    /\ UNCHANGED <<dir, storeVars, poolVars, serverVars>>

\* main, line 57: get_real_engine(cli.engine, &path)?
ServerSelect ==
    /\ boot.pc = "select"
    /\ boot' = [boot EXCEPT
                  !.real_engine = get_real_engine(boot.cli_engine, dir),
                  !.pc = IF get_real_engine(boot.cli_engine, dir) = "Err"
                         THEN "off" ELSE "open"]
    /\ UNCHANGED <<dir, storeVars, poolVars, serverVars>>

\* main, lines 70-73: the selected engine is opened on path.  KvStore::open
\* creates the directory and the file kvs (kvstore.rs:75-76); sled creates
\* the directory and its file conf.
ServerOpen ==
    /\ boot.pc = "open"
    /\ dir' = IF boot.real_engine = "kvs"
              THEN [dir EXCEPT !.exists = TRUE, !.kvs = TRUE]
              ELSE [dir EXCEPT !.exists = TRUE, !.conf = TRUE]
    /\ boot' = [boot EXCEPT !.pc = "serving"]
    /\ UNCHANGED <<storeVars, poolVars, serverVars>>

\* the server process ends
ServerExit ==
    /\ boot.pc = "serving"
    /\ boot' = [boot EXCEPT !.pc = "off"]
    /\ UNCHANGED <<dir, storeVars, poolVars, serverVars>>

\* the kvs command-line program is run on the directory: it opens a KvStore
\* without looking at the sentinels (bin/kvs.rs:30)
KvsCli ==
    /\ dir' = [dir EXCEPT !.exists = TRUE, !.kvs = TRUE]
    /\ dir' # dir
    /\ UNCHANGED <<boot, storeVars, poolVars, serverVars>>

\* ---------------------------------------------------------- server closures
PoolKinds == {"SharedQueue", "Naive", "Rayon"}
Workers == 0..(MaxWorkers - 1)
Jobs == 1..MaxJobs
NoJob == 0
\* the connection shutdown() makes
SdConn == MaxJobs + 1
Conns == Jobs \cup {SdConn}

Response(kind, val) == [kind |-> kind, val |-> val]
NoResponse == Response("none", "")
NoConn == [req |-> "none", eres |-> Pending, resp |-> NoResponse, late |-> FALSE]

\* what a KvsEngine may answer to a request: the engine is a type parameter
\* of the server, so every value of the result type, and a panic
EngineErrors == {IoError, SeredError, RemoveNonexistKey}
EngineResults(req) ==
    IF req = "Get"
    THEN {ResNone} \cup {ResValue(v) : v \in Vals} \cup EngineErrors \cup {Panic}
    ELSE {ResOk} \cup EngineErrors \cup {Panic}

\* a response that answers every Rm error with Err
RespondRmErr(req, r) ==
    IF req = "Get"
    THEN IF r.kind = "Value" THEN Response("Value", r.val)
         ELSE IF r = ResNone THEN Response("NoKey", "")
         ELSE Response("Err", "")
    ELSE IF r = ResOk THEN Response("Ok", "") ELSE Response("Err", "")

\* KvsServer::handle_stream, lines 44-78: the response encoded for the result
\* r of the engine call
Respond(req, r) ==
    IF req = "Set"
    THEN IF r = ResOk THEN Response("Ok", "") ELSE Response("Err", "")
    ELSE IF req = "Get"
    THEN IF r.kind = "Value" THEN Response("Value", r.val)
         ELSE IF r = ResNone THEN Response("NoKey", "")
         ELSE Response("Err", "")
    ELSE IF r = ResOk THEN Response("Ok", "")
         ELSE IF r = RemoveNonexistKey THEN Response("NoKey", "")
         ELSE Response("Err", "")

\* KvsServer::handle_stream on a connection carrying request req.  io_ok: the
\* stream was cloned and the request decoded; r: what the engine call does;
\* w_ok: write_all succeeded.  ret is what handle_stream returns ("panic" when
\* the engine call unwinds through it).
handle_stream(req, io_ok, r, w_ok) ==
    IF ~io_ok THEN [eres |-> Pending, resp |-> NoResponse, ret |-> "Err"]
    ELSE IF r = Panic THEN [eres |-> r, resp |-> NoResponse, ret |-> "panic"]
    ELSE IF ~w_ok THEN [eres |-> r, resp |-> NoResponse, ret |-> "Err"]
    ELSE [eres |-> r, resp |-> Respond(req, r),
          ret |-> IF Respond(req, r) = Response("Err", "") THEN "Err" ELSE "Ok"]

\* A job runs to its end.  A job spawned by listen_on is the closure of
\* server.rs:92-94, handle_stream(..).unwrap(), which panics unless
\* handle_stream returns Ok; any other job ends normally or panics.
Execute(j) ==
    IF conn[j].req = "none"
    THEN /\ \E p \in BOOLEAN : fin' = [fin EXCEPT ![j] = IF p THEN "panic" ELSE "ok"]
         /\ UNCHANGED conn
    ELSE \E io_ok, w_ok \in BOOLEAN, r \in EngineResults(conn[j].req) :
            LET o == handle_stream(conn[j].req, io_ok, r, w_ok) IN
            /\ conn' = [conn EXCEPT ![j].eres = o.eres, ![j].resp = o.resp]
            /\ fin' = [fin EXCEPT ![j] = IF o.ret = "Ok" THEN "ok" ELSE "panic"]

\* ------------------------------------------------------------ thread pools
\* no pool and no server: the store is used directly
NoPool ==
    /\ pool_kind = "none" /\ n_threads = 0 /\ dropped = FALSE
    /\ made = [ret |-> "none", workers |-> 0]
    /\ repeater = <<>> /\ sleeper = <<>> /\ sleeper_open = FALSE
    /\ job_chan = [w \in Workers |-> <<>>]
    /\ chan_open = [w \in Workers |-> FALSE]
    /\ master = [pc |-> "none", job |-> NoJob, id |-> 0]
    /\ wk = [w \in Workers |-> [pc |-> "none", job |-> NoJob]]
    /\ own_thread = {}
    /\ caller = [pc |-> "none", job |-> NoJob, ret |-> "none"]
    /\ spawned = <<>>
    /\ runs = [j \in Conns |-> 0]
    /\ fin = [j \in Conns |-> "no"]
    /\ shutdown = FALSE /\ backlog = <<>> /\ sd = "none"
    /\ conn = [j \in Conns |-> NoConn]

\* ThreadPool::new(n) of each implementation: what it returns and how many
\* worker threads it creates.  SharedQueueThreadPool refuses n = 0
\* (shared_queue.rs:62-64); NaiveThreadPool only reserves a vector
\* (naive.rs:26-28); RayonThreadPool passes n to the builder's num_threads
\* (rayon_wrapper.rs:13-15), for which 0 means a number rayon chooses, auto.
new(kind, n, auto) ==
    IF kind = "SharedQueue"
    THEN IF n = 0 THEN [ret |-> "ZeroSizedPool", workers |-> 0]
         ELSE [ret |-> "Ok", workers |-> n]
    ELSE IF kind = "Naive" THEN [ret |-> "Ok", workers |-> 0]
    ELSE [ret |-> "Ok", workers |-> IF n = 0 THEN auto ELSE n]

\* ThreadPool::new(n_threads), for each implementation.
\* SharedQueueThreadPool: the master thread has created its workers, each
\* about to report itself idle.
ThreadPool_new ==
    /\ pool_kind \in PoolKinds
    /\ n_threads \in 0..MaxWorkers
    /\ made \in {new(pool_kind, n_threads, auto) : auto \in 1..MaxWorkers}
    /\ dropped = FALSE
    /\ repeater = <<>> /\ sleeper = <<>>
    /\ sleeper_open = (pool_kind = "SharedQueue" /\ made.ret = "Ok")
    /\ job_chan = [w \in Workers |-> <<>>]
    /\ chan_open = [w \in Workers |-> pool_kind = "SharedQueue" /\ w < n_threads]
    /\ master = [pc |-> IF pool_kind = "SharedQueue" /\ made.ret = "Ok"
                         THEN "recv_job" ELSE "none",
                 job |-> NoJob, id |-> 0]
    /\ wk = [w \in Workers |->
                [pc |-> IF pool_kind = "SharedQueue" /\ w < n_threads
                        THEN "hello" ELSE "none",
                 job |-> NoJob]]
    /\ own_thread = {}
    /\ spawned = <<>>
    /\ runs = [j \in Conns |-> 0]
    /\ fin = [j \in Conns |-> "no"]

\* ThreadPool::spawn(job) by the caller thread, which goes on at ret.
\* SharedQueueThreadPool sends the job to the master; NaiveThreadPool starts a
\* thread for it; RayonThreadPool calls install, which runs the job in the
\* pool and returns when the job has.
spawn(j, ret) ==
    /\ spawned' = Append(spawned, j)
    /\ IF pool_kind = "SharedQueue"
       THEN /\ repeater' = Append(repeater, j)
            /\ caller' = [caller EXCEPT !.pc = ret, !.job = NoJob]
            /\ UNCHANGED <<own_thread, runs>>
       ELSE /\ own_thread' = own_thread \cup {j}
            /\ runs' = [runs EXCEPT ![j] = @ + 1]
            /\ caller' = IF pool_kind = "Naive"
                         THEN [caller EXCEPT !.pc = ret, !.job = NoJob]
                         ELSE [pc |-> "install", job |-> j, ret |-> ret]
            /\ UNCHANGED repeater

\* a caller spawns the next job
PoolSpawn ==
    /\ caller.pc = "idle" /\ made.ret = "Ok" /\ ~dropped
    /\ Len(spawned) < MaxJobs
    /\ spawn(Len(spawned) + 1, "idle")
    /\ UNCHANGED <<pool_kind, n_threads, made, dropped, sleeper, sleeper_open,
                   job_chan, chan_open, master, wk, fin>>
    /\ UNCHANGED <<storeVars, bootVars, serverVars>>

\* the pool value is dropped; NaiveThreadPool's Drop joins its threads
PoolDrop ==
    /\ caller.pc = "idle" /\ made.ret = "Ok" /\ ~dropped
    /\ dropped' = TRUE
    /\ caller' = [caller EXCEPT
                     !.pc = IF pool_kind = "Naive" THEN "joining" ELSE "gone"]
    /\ UNCHANGED <<pool_kind, n_threads, made, channelVars, master, wk, own_thread,
                   spawned, runs, fin>>
    /\ UNCHANGED <<storeVars, bootVars, serverVars>>

\* NaiveThreadPool::drop: every handle has been joined
NaiveJoined ==
    /\ caller.pc = "joining" /\ own_thread = {}
    /\ caller' = [caller EXCEPT !.pc = "gone"]
    /\ UNCHANGED <<pool_kind, n_threads, made, dropped, channelVars, master, wk,
                   own_thread, spawned, runs, fin>>
    /\ UNCHANGED <<storeVars, bootVars, serverVars>>

\* A job on a thread of its own ends.  A NaiveThreadPool thread ends with
\* it; RayonThreadPool's install returns to the caller, or resumes the job's
\* panic in the caller.
OwnThreadEnds(j) ==
    /\ j \in own_thread
    /\ Execute(j)
    /\ own_thread' = own_thread \ {j}
    /\ caller' = IF pool_kind = "Rayon"
                 THEN [caller EXCEPT !.pc = IF fin'[j] = "panic" THEN "panicked"
                                            ELSE caller.ret,
                                     !.job = NoJob]
                 ELSE caller
    /\ UNCHANGED <<pool_kind, n_threads, made, dropped, channelVars, master, wk,
                   spawned, runs>>
    /\ UNCHANGED <<storeVars, bootVars, shutdown, backlog, sd>>

\* what the SharedQueueThreadPool steps below leave alone
poolFrame == <<pool_kind, n_threads, made, dropped, own_thread, caller, spawned>>

\* a master whose loop ends as soon as the pool is gone, jobs still queued
MasterRecvJobStops ==
    /\ master.pc = "recv_job"
    /\ IF repeater # <<>> /\ ~dropped
       THEN /\ master' = [master EXCEPT !.pc = "recv_id", !.job = Head(repeater)]
            /\ repeater' = Tail(repeater)
       ELSE /\ dropped
            /\ master' = [master EXCEPT !.pc = "drop"]
            /\ UNCHANGED repeater
    /\ UNCHANGED <<poolFrame, sleeper, sleeper_open, job_chan, chan_open, wk,
                   runs, fin>>
    /\ UNCHANGED <<storeVars, bootVars, serverVars>>

\* master, line 78: the next job of the repeater; the loop ends when the
\* channel is empty and the pool (the Sender) is gone
MasterRecvJob ==
    /\ master.pc = "recv_job"
    /\ IF repeater # <<>>
       THEN /\ master' = [master EXCEPT !.pc = "recv_id", !.job = Head(repeater)]
            /\ repeater' = Tail(repeater)
       ELSE /\ dropped
            /\ master' = [master EXCEPT !.pc = "drop"]
            /\ UNCHANGED repeater
    /\ UNCHANGED <<poolFrame, sleeper, sleeper_open, job_chan, chan_open, wk,
                   runs, fin>>
    /\ UNCHANGED <<storeVars, bootVars, serverVars>>

\* a master that reads the id of an idle worker and leaves its token in the
\* channel
MasterRecvIdKeeps ==
    /\ master.pc = "recv_id"
    /\ sleeper # <<>>
    /\ master' = [master EXCEPT !.pc = "send", !.id = Head(sleeper)]
    /\ UNCHANGED <<poolFrame, repeater, sleeper, sleeper_open, job_chan,
                   chan_open, wk, runs, fin>>
    /\ UNCHANGED <<storeVars, bootVars, serverVars>>

\* a master that hands every job to worker 0, idle or not
MasterRecvIdFixed ==
    /\ master.pc = "recv_id"
    /\ master' = [master EXCEPT !.pc = "send", !.id = 0]
    /\ UNCHANGED <<poolFrame, repeater, sleeper, sleeper_open, job_chan,
                   chan_open, wk, runs, fin>>
    /\ UNCHANGED <<storeVars, bootVars, serverVars>>

\* master, line 79: sleeper.recv().unwrap(), the id of an idle worker
MasterRecvId ==
    /\ master.pc = "recv_id"
    /\ sleeper # <<>>
    /\ master' = [master EXCEPT !.pc = "send", !.id = Head(sleeper)]
    /\ sleeper' = Tail(sleeper)
    /\ UNCHANGED <<poolFrame, repeater, sleeper_open, job_chan, chan_open, wk,
                   runs, fin>>
    /\ UNCHANGED <<storeVars, bootVars, serverVars>>

\* a master that loses the job it took from the repeater
MasterSendLoses ==
    /\ master.pc = "send"
    /\ master' = [master EXCEPT !.pc = "recv_job", !.job = NoJob]
    /\ UNCHANGED <<poolFrame, repeater, sleeper, sleeper_open, job_chan,
                   chan_open, wk, runs, fin>>
    /\ UNCHANGED <<storeVars, bootVars, serverVars>>

\* master, lines 80-81: threads[id].job_sender.send(job).unwrap() on a
\* channel of capacity 1; it panics if the worker's receiver is gone
MasterSend ==
    /\ master.pc = "send"
    /\ IF wk[master.id].pc = "exit"
       THEN /\ master' = [master EXCEPT !.pc = "panicked"]
            /\ UNCHANGED job_chan
       ELSE /\ Len(job_chan[master.id]) < 1
            /\ job_chan' = [job_chan EXCEPT ![master.id] = Append(@, master.job)]
            /\ master' = [master EXCEPT !.pc = "recv_job", !.job = NoJob]
    /\ UNCHANGED <<poolFrame, repeater, sleeper, sleeper_open, chan_open, wk,
                   runs, fin>>
    /\ UNCHANGED <<storeVars, bootVars, serverVars>>

\* master, lines 84-85: drop(sleeper); drop(waker)
MasterDrop ==
    /\ master.pc = "drop"
    /\ sleeper_open' = FALSE
    /\ master' = [master EXCEPT !.pc = "join", !.id = 0]
    /\ UNCHANGED <<poolFrame, repeater, sleeper, job_chan, chan_open, wk,
                   runs, fin>>
    /\ UNCHANGED <<storeVars, bootVars, serverVars>>

\* master, lines 86-89: for each worker, drop its job_sender, then join it
MasterJoin ==
    /\ master.pc = "join"
    /\ IF master.id >= n_threads
       THEN /\ master' = [master EXCEPT !.pc = "done"]
            /\ UNCHANGED chan_open
       ELSE IF chan_open[master.id]
       THEN /\ chan_open' = [chan_open EXCEPT ![master.id] = FALSE]
            /\ UNCHANGED master
       ELSE /\ wk[master.id].pc = "exit"
            /\ master' = [master EXCEPT !.id = @ + 1]
            /\ UNCHANGED chan_open
    /\ UNCHANGED <<poolFrame, repeater, sleeper, sleeper_open, job_chan, wk,
                   runs, fin>>
    /\ UNCHANGED <<storeVars, bootVars, serverVars>>

\* worker, lines 28-30 and 42-44: waker.send(id) on a channel of capacity
\* n_threads; the worker returns if the sleeper is gone
WorkerReady(w) ==
    /\ wk[w].pc \in {"hello", "report"}
    /\ IF sleeper_open
       THEN /\ Len(sleeper) < n_threads
            /\ sleeper' = Append(sleeper, w)
            /\ wk' = [wk EXCEPT ![w].pc = "recv"]
       ELSE /\ wk' = [wk EXCEPT ![w].pc = "exit"]
            /\ UNCHANGED sleeper
    /\ UNCHANGED <<poolFrame, repeater, sleeper_open, job_chan, chan_open,
                   master, runs, fin>>
    /\ UNCHANGED <<storeVars, bootVars, serverVars>>

\* worker, line 32: the next job of job_receiver; the loop ends when the
\* channel is empty and its sender is gone
WorkerRecv(w) ==
    /\ wk[w].pc = "recv"
    /\ IF job_chan[w] # <<>>
       THEN /\ wk' = [wk EXCEPT ![w].pc = "run", ![w].job = Head(job_chan[w])]
            /\ job_chan' = [job_chan EXCEPT ![w] = Tail(@)]
            /\ runs' = [runs EXCEPT ![Head(job_chan[w])] = @ + 1]
       ELSE /\ ~chan_open[w]
            /\ wk' = [wk EXCEPT ![w].pc = "exit"]
            /\ UNCHANGED <<job_chan, runs>>
    /\ UNCHANGED <<poolFrame, repeater, sleeper, sleeper_open, chan_open,
                   master, fin>>
    /\ UNCHANGED <<storeVars, bootVars, serverVars>>

\* a worker that starts the job on a thread of its own and reports itself
\* idle at once
WorkerRunDetached(w) ==
    /\ wk[w].pc = "run"
    /\ own_thread' = own_thread \cup {wk[w].job}
    /\ wk' = [wk EXCEPT ![w].pc = "report", ![w].job = NoJob]
    /\ UNCHANGED <<pool_kind, n_threads, made, dropped, caller, spawned,
                   channelVars, master, runs, fin>>
    /\ UNCHANGED <<storeVars, bootVars, serverVars>>

\* a worker that runs the job outside catch_unwind: a panic ends its thread
WorkerRunUncaught(w) ==
    /\ wk[w].pc = "run"
    /\ Execute(wk[w].job)
    /\ wk' = [wk EXCEPT ![w].pc = IF fin'[wk[w].job] = "panic" THEN "exit"
                                  ELSE "report",
                        ![w].job = NoJob]
    /\ UNCHANGED <<poolFrame, channelVars, master, runs>>
    /\ UNCHANGED <<storeVars, bootVars, shutdown, backlog, sd>>

\* worker, lines 33-41: catch_unwind(AssertUnwindSafe(job)); a panic is
\* printed and the worker goes on to report itself idle
WorkerRun(w) ==
    /\ wk[w].pc = "run"
    /\ Execute(wk[w].job)
    /\ wk' = [wk EXCEPT ![w].pc = "report", ![w].job = NoJob]
    /\ UNCHANGED <<poolFrame, channelVars, master, runs>>
    /\ UNCHANGED <<storeVars, bootVars, shutdown, backlog, sd>>

PoolThreads ==
    \/ MasterRecvJob
    \/ MasterRecvId
    \/ MasterSend
    \/ \E w \in Workers : WorkerReady(w)
    \/ \E w \in Workers : WorkerRecv(w)
    \/ \E w \in Workers : WorkerRun(w)
    \/ \E j \in Conns : OwnThreadEnds(j)

PoolFairness ==
    /\ WF_vars(MasterRecvJob)
    /\ WF_vars(MasterRecvId)
    /\ WF_vars(MasterSend)
    /\ \A w \in Workers : WF_vars(WorkerReady(w))
    /\ \A w \in Workers : WF_vars(WorkerRecv(w))
    /\ \A w \in Workers : WF_vars(WorkerRun(w))
    /\ \A j \in Conns : WF_vars(OwnThreadEnds(j))

InitPool ==
    /\ Opened /\ ~IS_TEST /\ budget = 0 /\ NoBoot
    /\ ThreadPool_new
    /\ caller = [pc |-> "idle", job |-> NoJob, ret |-> "idle"]
    /\ shutdown = FALSE /\ backlog = <<>> /\ sd = "none"
    /\ conn = [j \in Conns |-> NoConn]

NextPool ==
    \/ PoolSpawn
    \/ PoolDrop
    \/ NaiveJoined
    \/ MasterDrop
    \/ MasterJoin
    \/ PoolThreads

SpecPool == InitPool /\ [][NextPool]_vars

SpecPoolFair ==
    SpecPool /\ PoolFairness /\ WF_vars(MasterDrop) /\ WF_vars(MasterJoin)
        /\ WF_vars(NaiveJoined)

\* The threads of the pool are scheduled, but a job need not end: there is
\* no fairness for WorkerRun, so any job may run for ever.
SpecPoolStuck ==
    /\ SpecPool
    /\ WF_vars(MasterRecvJob) /\ WF_vars(MasterRecvId) /\ WF_vars(MasterSend)
    /\ \A w \in Workers : WF_vars(WorkerReady(w)) /\ WF_vars(WorkerRecv(w))

\* ------------------------------------------------------------------ server
Requests == {"Set", "Get", "Rm"}
Clients == 1..MaxConns

\* listen_on has not returned: its TcpListener is bound
Listening == caller.pc \in {"accept", "check", "spawn", "install"}

serverPoolFrame == <<pool_kind, n_threads, made, dropped, channelVars, master, wk,
                     own_thread, spawned, runs, fin>>

\* a client connects to the address and sends one request
Connect(c) ==
    /\ Listening
    /\ conn[c].req = "none"
    /\ \A d \in Clients : d < c => conn[d].req # "none"
    /\ \E q \in Requests : conn' = [conn EXCEPT ![c].req = q]
    /\ backlog' = Append(backlog, c)
    /\ UNCHANGED <<shutdown, sd, caller, serverPoolFrame, storeVars, bootVars>>

\* listen_on, line 86: listener.incoming() yields the next connection, or
\* an error
ListenAccept ==
    /\ caller.pc = "accept"
    /\ \/ /\ backlog # <<>>
          /\ caller' = [caller EXCEPT !.pc = "check", !.job = Head(backlog)]
          /\ backlog' = Tail(backlog)
          /\ conn' = [conn EXCEPT ![Head(backlog)].late = shutdown]
       \/ /\ caller' = [caller EXCEPT !.pc = "check", !.job = NoJob]
          /\ UNCHANGED <<backlog, conn>>
    /\ UNCHANGED <<shutdown, sd, serverPoolFrame, storeVars, bootVars>>

\* listen_on, lines 87-90: break if the flag is set, then stream?
ListenCheck ==
    /\ caller.pc = "check"
    /\ caller' = [caller EXCEPT
                     !.pc = IF shutdown THEN "ret_ok"
                            ELSE IF caller.job = NoJob THEN "ret_err"
                            ELSE "spawn"]
    /\ UNCHANGED <<serverVars, serverPoolFrame, storeVars, bootVars>>

\* listen_on, lines 91-94: the handler is spawned on the pool
ListenSpawn ==
    /\ caller.pc = "spawn"
    /\ spawn(caller.job, "accept")
    /\ UNCHANGED <<pool_kind, n_threads, made, dropped, sleeper, sleeper_open,
                   job_chan, chan_open, master, wk, fin>>
    /\ UNCHANGED <<serverVars, storeVars, bootVars>>

\* shutdown, line 22: shutdown.store(true)
ShutdownStore ==
    /\ sd = "idle"
    /\ shutdown' = TRUE
    /\ sd' = "stored"
    /\ UNCHANGED <<backlog, conn, poolVars, storeVars, bootVars>>

\* shutdown, line 23: TcpStream::connect(addr).unwrap()
ShutdownConnect ==
    /\ sd = "stored"
    /\ IF Listening
       THEN /\ backlog' = Append(backlog, SdConn)
            /\ sd' = "connected"
       ELSE /\ sd' = "panicked"
            /\ UNCHANGED backlog
    /\ UNCHANGED <<shutdown, conn, poolVars, storeVars, bootVars>>

\* listen_on has returned (or unwound) and the server, with its pool, is
\* dropped
ServerDrop ==
    /\ caller.pc \in {"ret_ok", "ret_err", "panicked"}
    /\ ~dropped
    /\ dropped' = TRUE
    /\ UNCHANGED <<pool_kind, n_threads, made, channelVars, master, wk, own_thread,
                   caller, spawned, runs, fin>>
    /\ UNCHANGED <<serverVars, storeVars, bootVars>>

\* KvsServer::new, then listen_on after a successful bind
InitServer ==
    /\ Opened /\ ~IS_TEST /\ budget = 0 /\ NoBoot
    /\ ThreadPool_new /\ n_threads > 0
    /\ caller = [pc |-> "accept", job |-> NoJob, ret |-> "accept"]
    /\ shutdown = FALSE /\ backlog = <<>> /\ sd = "idle"
    /\ conn = [j \in Conns |-> NoConn]

NextServer ==
    \/ \E c \in Clients : Connect(c)
    \/ ListenAccept
    \/ ListenCheck
    \/ ListenSpawn
    \/ ShutdownStore
    \/ ShutdownConnect
    \/ ServerDrop
    \/ MasterDrop
    \/ MasterJoin
    \/ PoolThreads

SpecServer == InitServer /\ [][NextServer]_vars

SpecServerFair ==
    SpecServer /\ PoolFairness /\ WF_vars(MasterDrop) /\ WF_vars(MasterJoin)
        /\ WF_vars(ListenAccept) /\ WF_vars(ListenCheck)
        /\ WF_vars(ListenSpawn) /\ WF_vars(ShutdownConnect)

\* the directory is absent, or present and empty
InitBoot ==
    /\ Opened /\ ~IS_TEST /\ budget = 0 /\ NoPool
    /\ dir \in {NoDir, [NoDir EXCEPT !.exists = TRUE]}
    /\ boot = BootOff

NextBoot ==
    \/ \E e \in EngineArgs : ServerStart(e)
    \/ ServerSelect
    \/ ServerOpen
    \/ ServerExit
    \/ KvsCli

SpecBoot == InitBoot /\ [][NextBoot]_vars

\* ------------------------------------------------------------------ specs
\* the engine used through several handles
Next ==
    \E h \in Handles :
        \/ \E k \in Keys : GetLookup(h, k)
        \/ GetVersion(h)
        \/ GetOpen(h)
        \/ GetDecode(h)
        \/ \E k \in Keys, v \in Vals : SetAppend(h, k, v)
        \/ SetInsert(h)
        \/ \E k \in Keys : RmLookup(h, k)
        \/ RmAppend(h)
        \/ MutFlush(h)
        \/ MutCheck(h)
        \/ CompactStart(h)
        \/ CompactCopy(h)
        \/ CompactDelete(h)
        \/ CompactVersion(h)
        \/ CompactPublish(h)
        \/ Clone(h)

Init == Opened /\ budget = MaxOps /\ NoPool /\ NoBoot

Spec == Init /\ [][Next]_vars

\* one handle, explicit flushes, and the process ending and reopening the
\* directory
NextReopen ==
    \/ \E k \in Keys : GetLookup(1, k)
    \/ GetVersion(1)
    \/ GetOpen(1)
    \/ GetDecode(1)
    \/ \E k \in Keys, v \in Vals : SetAppend(1, k, v)
    \/ SetInsert(1)
    \/ \E k \in Keys : RmLookup(1, k)
    \/ RmAppend(1)
    \/ MutFlush(1)
    \/ MutCheck(1)
    \/ CompactStart(1)
    \/ CompactCopy(1)
    \/ CompactDelete(1)
    \/ CompactVersion(1)
    \/ CompactPublish(1)
    \/ Flush(1)
    \/ \E graceful \in BOOLEAN : Reopen(graceful)

InitReopen == Opened /\ budget = MaxOpsReopen /\ NoPool /\ NoBoot

SpecReopen == InitReopen /\ [][NextReopen]_vars

\* one handle, and the process ending in the middle of a write
NextTorn ==
    \/ \E k \in Keys : GetLookup(1, k)
    \/ GetVersion(1)
    \/ GetOpen(1)
    \/ GetDecode(1)
    \/ \E k \in Keys, v \in Vals : SetAppend(1, k, v)
    \/ SetInsert(1)
    \/ \E k \in Keys : RmLookup(1, k)
    \/ RmAppend(1)
    \/ MutFlush(1)
    \/ MutCheck(1)
    \/ CompactStart(1)
    \/ CompactCopy(1)
    \/ CompactDelete(1)
    \/ CompactVersion(1)
    \/ CompactPublish(1)
    \/ \E n \in 0..MAX_DATA_FILE_SIZE, half \in BOOLEAN : CrashOpen(n, half)

InitTorn == Opened /\ budget = MaxOps /\ NoPool /\ NoBoot

SpecTorn == InitTorn /\ [][NextTorn]_vars

\* one handle, on a file system whose writes and creations may fail
Faults == {"create", "write"}
NextFault ==
    \/ \E k \in Keys : GetLookup(1, k)
    \/ GetVersion(1)
    \/ GetOpen(1)
    \/ GetDecode(1)
    \/ \E k \in Keys, v \in Vals : SetAppend(1, k, v)
    \/ \E k \in Keys, v \in Vals, at \in Faults : SetAppendFails(1, k, v, at)
    \/ SetInsert(1)
    \/ \E k \in Keys : RmLookup(1, k)
    \/ RmAppend(1)
    \/ \E at \in Faults : RmAppendFails(1, at)
    \/ MutFlush(1)
    \/ MutCheck(1)
    \/ CompactStart(1)
    \/ CompactCopy(1)
    \/ CompactDelete(1)
    \/ CompactVersion(1)
    \/ CompactPublish(1)

InitFault == Opened /\ budget = MaxOps /\ NoPool /\ NoBoot

SpecFault == InitFault /\ [][NextFault]_vars

\* one handle and a longer run of mutations: long enough for a second
\* compaction
NextOne ==
    \/ \E k \in Keys : GetLookup(1, k)
    \/ GetVersion(1)
    \/ GetOpen(1)
    \/ GetDecode(1)
    \/ \E k \in Keys, v \in Vals : SetAppend(1, k, v)
    \/ SetInsert(1)
    \/ \E k \in Keys : RmLookup(1, k)
    \/ RmAppend(1)
    \/ MutFlush(1)
    \/ MutCheck(1)
    \/ CompactStart(1)
    \/ CompactCopy(1)
    \/ CompactDelete(1)
    \/ CompactVersion(1)
    \/ CompactPublish(1)

InitOne == Opened /\ budget = MaxOpsOne /\ NoPool /\ NoBoot

SpecOne == InitOne /\ [][NextOne]_vars

\* both engines under one caller, test profile: a call is made on the
\* lock-free store, then on the rwlock store, and the next call starts when
\* both have answered; at some point both stores are dropped and reopened,
\* once
InStep == rw.n = nops /\ rw.opened = "Ok" /\ (reopened => rw.reopened)

NextEquiv ==
    \/ InStep /\ \E k \in Keys : GetLookup(1, k)
    \/ GetVersion(1)
    \/ GetOpen(1)
    \/ GetDecode(1)
    \/ InStep /\ \E k \in Keys, v \in Vals : SetAppend(1, k, v)
    \/ SetInsert(1)
    \/ InStep /\ \E k \in Keys : RmLookup(1, k)
    \/ RmAppend(1)
    \/ MutFlush(1)
    \/ MutCheck(1)
    \/ CompactStart(1)
    \/ CompactCopy(1)
    \/ CompactDelete(1)
    \/ CompactVersion(1)
    \/ CompactPublish(1)
    \/ RwApply
    \/ InStep /\ ~rw.reopened /\ Reopen(TRUE)
    \/ RwReopen

InitEquiv == Opened /\ IS_TEST /\ budget = MaxOps /\ NoPool /\ NoBoot

SpecEquiv == InitEquiv /\ [][NextEquiv]_vars

\* ----------------------------------------------------------------- claims
Done(h) == pc[h] = "idle" /\ res[h] # Pending
DoneGet(h) == Done(h) /\ op[h].type = "Get"
DoneRm(h) == Done(h) /\ op[h].type = "Rm"

\* what a Get of k on a fresh handle returns in the current state
GetNow(k) ==
    IF k \in DOMAIN key_dir
    THEN ReadRecord({}, disk, linked, key_dir[k].file_id, key_dir[k].file_offset)
    ELSE ResNone

\* C1: after the writer was flushed and the directory reopened, Get(k) returns
\* the value of the last successful mutation of k (None after an Rm, or if k
\* was never set), for every key none of whose mutations failed.
Durability ==
    reopened => \A k \in Keys : ~tainted[k] => GetNow(k) = MapGet(abs[k])

\* C2: a Get(k) on handle H, looked up when the last mutation of k was a
\* Set(k,v) that returned Ok on H and no other mutation of k is under way,
\* returns Some(v).
ReadYourWrites ==
    \A h \in Handles :
        (DoneGet(h) /\ snap[h].settled /\ snap[h].lastOk = "Set"
                    /\ snap[h].by = h)
            => res[h] = ResValue(snap[h].abs)

\* C3: a Get that overlaps a compaction run by another handle returns Ok with
\* the value the key had (never an I/O error, a decode error or a panic).
GetDuringCompaction ==
    \A h \in Handles :
        (DoneGet(h) /\ snap[h].ovl) => res[h] = MapGet(snap[h].abs)

\* C4: a Get issued right after a Set or Rm that ran a compaction returns
\* what the sequential map holds for the key, on every handle.
CompactionPreservesState ==
    \A h \in Handles :
        (DoneGet(h) /\ snap[h].cmp) => res[h] = MapGet(snap[h].abs)

\* C5: every call returns what a sequential map gives at the point where the
\* call takes effect: Get the value then held, Set Ok, Rm Ok or
\* RemoveNonexistKey as the key was present or absent.
Linearizable ==
    \A h \in Handles :
        Done(h) =>
            CASE op[h].type = "Get" -> res[h] = MapGet(snap[h].abs)
              [] op[h].type = "Set" -> res[h] = ResOk
              [] op[h].type = "Rm" ->
                    res[h] = IF snap[h].abs = "" THEN RemoveNonexistKey ELSE ResOk
              [] OTHER -> TRUE

\* C6 as stated: once Rm(k) has returned Ok and until a Set(k,_) has returned
\* Ok, a Get(k) that succeeds on any handle returns None and an Rm(k) returns
\* RemoveNonexistKey.
RemoveSemanticsUntilSetReturns ==
    \A h \in Handles :
        /\ (DoneGet(h) /\ snap[h].lastOk = "Rm" /\ snap[h].quiet
                       /\ res[h].kind \in {"Value", "None"})
               => res[h] = ResNone
        /\ (DoneRm(h) /\ snap[h].lastOk = "Rm")
               => res[h] = RemoveNonexistKey

\* C6 as amended: once Rm(k) has returned Ok and until a Set(k,_) is issued,
\* a Get(k) on any handle returns None and an Rm(k) returns
\* RemoveNonexistKey.
RemoveSemantics ==
    \A h \in Handles :
        /\ (DoneGet(h) /\ snap[h].lastOk = "Rm" /\ snap[h].settled)
               => res[h] = ResNone
        /\ (DoneRm(h) /\ snap[h].lastOk = "Rm" /\ snap[h].settled)
               => res[h] = RemoveNonexistKey

\* the C6 case: a Get and a second Rm answered after an Rm returned Ok
RemoveSemanticsWitness ==
    \E g, h \in Handles :
        /\ g # h
        /\ DoneGet(g) /\ snap[g].lastOk = "Rm" /\ snap[g].settled
        /\ res[g] = ResNone
        /\ DoneRm(h) /\ snap[h].lastOk = "Rm" /\ snap[h].settled
        /\ res[h] = RemoveNonexistKey
        /\ op[g].key = op[h].key

\* C7: an Rm of a key absent from the published index returns
\* RemoveNonexistKey at once and leaves the segment files, the directory, the
\* writer (buffer, position, current segment id, useless-bytes counter), the
\* index and global_version unchanged; it neither holds the mutex afterwards
\* nor enters compaction.
RmAbsentChangesNothing ==
    [][\A h \in Handles :
          (/\ nops' = nops + 1 /\ snap'[h].seq = nops' /\ op'[h].type = "Rm"
           /\ op'[h].key \notin DOMAIN key_dir)
          => /\ res'[h] = RemoveNonexistKey
             /\ UNCHANGED <<disk, linked, writer, key_dir, global_version>>
             /\ pc'[h] = "idle" /\ lock' = NoHandle /\ ~compacted']_vars

\* the C7 case: an Rm has returned RemoveNonexistKey on a store that holds
\* records and other keys
RmAbsentWitness ==
    \E h \in Handles :
        /\ DoneRm(h) /\ res[h] = RemoveNonexistKey
        /\ DOMAIN key_dir # {} /\ writer.pos > 0

\* C8: a Get(k) on a handle H2, looked up when the last mutation of k
\* returned Ok on another handle H1 and no other mutation of k is under way,
\* returns Some(v) after Set(k,v) and None after Rm(k).
CrossHandleVisibility ==
    \A h \in Handles :
        (DoneGet(h) /\ snap[h].settled /\ snap[h].lastOk \in {"Set", "Rm"}
                    /\ snap[h].by \in Handles \ {h})
            => res[h] = MapGet(snap[h].abs)

\* C9: every entry of the published index names a present segment file whose
\* bytes at the entry's offset, as a reader sees them, decode to the Set
\* record of that key with the latest value and the entry's length.
IndexRecordInvariant ==
    \A k \in DOMAIN key_dir :
        /\ key_dir[k].file_id \in linked
        /\ Decode(disk[key_dir[k].file_id], key_dir[k].file_offset)
             = [kind |-> "cmd", cmd |-> SetCmd(k, abs[k]), len |-> key_dir[k].len]

\* C10: no segment file is missing from the directory while the published
\* index, or the placement a Get in progress has looked up, references it.
DeletionSafety ==
    /\ \A k \in DOMAIN key_dir : key_dir[k].file_id \in linked
    /\ \A h \in Handles :
          pc[h] \in {"version", "open", "decode"} => meta[h].file_id \in linked

\* C11: when a compaction has completed successfully, no segment file that
\* existed before the compaction created its first fresh segment remains in
\* the directory.
CompactionDeletesOldSegments ==
    afterCompact => olds \cap linked = {}

\* the bytes of segment f, those still in the writer's buffer included
SegmentBytes(f) ==
    IF f = writer.file THEN disk[f] \o writer.buf ELSE disk[f]

InsideSegment(m) == m.file_offset + m.len <= MAX_DATA_FILE_SIZE

\* C12: every segment file is at most MAX_DATA_FILE_SIZE long and every
\* placement append_log has returned (to a Set, or to compaction for the
\* index it builds) lies wholly inside one segment.
SegmentCap ==
    /\ \A f \in DOMAIN disk : Len(SegmentBytes(f)) <= MAX_DATA_FILE_SIZE
    /\ writer.pos <= MAX_DATA_FILE_SIZE
    /\ \A k \in DOMAIN key_dir : InsideSegment(key_dir[k])
    /\ \A k \in DOMAIN new_key_dir : InsideSegment(new_key_dir[k])
    /\ \A h \in Handles : InsideSegment(meta[h])

\* the C12 case: a segment is full to the cap, a roll-over has happened and
\* a compaction has completed
SegmentCapWitness ==
    /\ \E f \in linked : Len(SegmentBytes(f)) = MAX_DATA_FILE_SIZE
    /\ Cardinality(DOMAIN disk) >= 3
    /\ DOMAIN key_dir # {}
    /\ afterCompact

\* C13: whoever holds the writer mutex and whatever the other handles are
\* doing, a handle can start a Get and a Get under way can take its next step,
\* up to its return: no step of Get waits for the mutex or for another Get.
GetNeverWaits ==
    \A h \in live :
        /\ pc[h] = "idle" => \A k \in Keys : ENABLED GetLookup(h, k)
        /\ pc[h] = "version" => ENABLED GetVersion(h)
        /\ pc[h] = "open" => ENABLED GetOpen(h)
        /\ pc[h] = "decode" => ENABLED GetDecode(h)

\* the C13 case: a Get that found its key has run from lookup to return
\* while another handle held the mutex for a compaction, which it still holds
GetNeverWaitsWitness ==
    \E g \in Handles :
        /\ DoneGet(g) /\ res[g].kind = "Value" /\ snap[g].ovl
        /\ Compacting /\ lock # g

\* a step of a Get of handle h: its lookup, or a step of its read_value
GetStep(h) ==
    \/ pc[h] \in {"version", "open", "decode"} /\ pc'[h] # pc[h]
    \/ /\ pc[h] = "idle" /\ op'[h].type = "Get"
       /\ <<op'[h], snap'[h], res'[h], pc'[h], meta'[h]>>
             # <<op[h], snap[h], res[h], pc[h], meta[h]>>

\* C14: whatever it returns, no step of a Get changes a segment file, the
\* directory, the writer (buffer, position, current segment id, useless-bytes
\* counter), the published index, global_version, the mutex or another
\* handle's reader cache and local_version.
GetFrame ==
    [][\A h \in Handles :
          GetStep(h) =>
              /\ UNCHANGED <<disk, linked, writer, key_dir, global_version, lock>>
              /\ \A g \in Handles \ {h} :
                     /\ readers'[g] = readers[g]
                     /\ local_version'[g] = local_version[g]]_vars

\* the C14 case: a Get has returned after it renewed its own local_version
\* and filled its own reader cache
GetFrameWitness ==
    \E h \in Handles :
        DoneGet(h) /\ local_version[h] > 0 /\ readers[h] # {}

IsSpawned(j) == \E i \in 1..Len(spawned) : spawned[i] = j

\* C15: in a SharedQueueThreadPool a job that panics does not end the worker
\* that ran it: a worker leaves a job only to report itself idle, no worker
\* thread ends while the pool's sleeper channel is open, and once a job has
\* panicked every other spawned job is still executed to its end, in a pool
\* of one worker too.
PanicIsolation ==
    /\ [][\A w \in Workers :
            (wk[w].pc = "run" /\ wk'[w].pc # "run") => wk'[w].pc = "report"]_vars
    /\ [](\A w \in Workers : wk[w].pc = "exit" => ~sleeper_open)
    /\ \A i, j \in Jobs :
          (pool_kind = "SharedQueue" /\ fin[i] = "panic" /\ IsSpawned(j))
              ~> (fin[j] # "no")

PanicIsolationWitness ==
    /\ pool_kind = "SharedQueue" /\ n_threads = 1
    /\ fin[1] = "panic" /\ fin[2] = "panic" /\ fin[3] = "ok"
    /\ wk[0].pc = "recv" /\ sleeper_open

\* the places of a SharedQueueThreadPool that hold job j
Holders(j) ==
    {<<"repeater", i>> : i \in {i \in 1..Len(repeater) : repeater[i] = j}}
        \cup {<<"master", 0>> : x \in {x \in {master.job} : x = j}}
        \cup {<<"job_chan", w>> : w \in {w \in Workers : job_chan[w] = <<j>>}}
        \cup {<<"worker", w>> : w \in {w \in Workers : wk[w].job = j}}

\* C16: every job passed to SharedQueueThreadPool::spawn is executed exactly
\* once, by exactly one worker: until it has run to its end it is held in
\* exactly one place (the repeater channel, the master, one worker's channel
\* or one worker), afterwards in none, no job is started twice, and, the
\* threads being scheduled fairly and the jobs ahead of it ending, it is
\* eventually run to its end.
EveryJobRunsOnce ==
    /\ [](pool_kind = "SharedQueue" =>
            \A j \in Jobs :
                /\ runs[j] <= 1
                /\ Cardinality(Holders(j))
                       = (IF IsSpawned(j) /\ fin[j] = "no" THEN 1 ELSE 0))
    /\ \A j \in Jobs :
          (pool_kind = "SharedQueue" /\ IsSpawned(j))
              ~> (fin[j] # "no" /\ runs[j] = 1)

EveryJobRunsOnceWitness ==
    /\ pool_kind = "SharedQueue"
    /\ fin[1] # "no" /\ runs[1] = 1
    /\ wk[0].pc = "run" /\ wk[0].job = 3
    /\ wk[1].pc = "run" /\ wk[1].job = 2

\* C17: spawn does not wait for the job, for every ThreadPool implementation:
\* the caller is never held inside spawn while the job it passed has not yet
\* run to its end.
SpawnDoesNotWait ==
    \A j \in Jobs : ~(caller.pc = "install" /\ caller.job = j /\ fin[j] = "no")

\* the response the table of C18 gives for request req and engine result r
Table(req, r) ==
    CASE req = "Set" /\ r = ResOk -> Response("Ok", "")
      [] req = "Set" /\ r \in EngineErrors -> Response("Err", "")
      [] req = "Get" /\ r.kind = "Value" -> Response("Value", r.val)
      [] req = "Get" /\ r = ResNone -> Response("NoKey", "")
      [] req = "Get" /\ r \in EngineErrors -> Response("Err", "")
      [] req = "Rm" /\ r = ResOk -> Response("Ok", "")
      [] req = "Rm" /\ r = RemoveNonexistKey -> Response("NoKey", "")
      [] req = "Rm" /\ r \in EngineErrors \ {RemoveNonexistKey} -> Response("Err", "")

\* C18: for every decoded request the response written is determined by the
\* engine's result: Set Ok gives Ok and a Set error Err; Get Ok(Some v) gives
\* Value(v), Ok(None) NoKey and an error Err; Rm Ok gives Ok,
\* RemoveNonexistKey NoKey and any other error Err.
OutcomeMapping ==
    \A c \in Clients :
        conn[c].resp # NoResponse =>
            /\ conn[c].eres \in EngineResults(conn[c].req) \ {Panic}
            /\ conn[c].resp = Table(conn[c].req, conn[c].eres)

OutcomeMappingWitness ==
    /\ conn[1].req = "Rm" /\ conn[1].eres = RemoveNonexistKey
    /\ conn[1].resp = Response("NoKey", "") /\ fin[1] = "ok"
    /\ conn[2].req = "Get" /\ conn[2].eres = IoError
    /\ conn[2].resp = Response("Err", "") /\ fin[2] = "panic"

\* C19: a failure while serving one connection (a decode error, an engine
\* error or a write error in handle_stream, each of which makes the handler's
\* job panic) does not stop the server: listen_on is never ended by it, so
\* the accept loop goes on to accept and dispatch later connections.
FailureDoesNotStopServer ==
    (\E c \in Clients : fin[c] = "panic") => caller.pc # "panicked"

\* C20: once shutdown(addr, flag) has set the flag and made its connection,
\* listen_on leaves the accept loop and returns Ok(()): it has returned
\* Ok(()) or is still on its way there, never ended otherwise; and no
\* connection accepted after the flag was set is handed to the pool.
ShutdownReturnsOk ==
    /\ sd = "connected" => (Listening \/ caller.pc = "ret_ok")
    /\ \A c \in Clients : conn[c].late => ~IsSpawned(c)

\* the engines whose sentinel file directory d holds
Sentinels(d) ==
    {e \in Engines : d.exists /\ (IF e = "sled" THEN d.conf ELSE d.kvs)}

\* C21: whatever the directory holds (sled's conf, the kvs sentinel, both,
\* neither, or no directory) and whichever engine is requested (kvs, sled or
\* none), get_real_engine returns an error whenever the directory holds the
\* sentinel of an engine other than the requested one, and otherwise selects
\* the engine named by the sentinel, else the requested engine, else kvs.
SentinelCheck ==
    [][(boot.pc = "select" /\ boot'.pc # "select"
            /\ boot.cli_engine \in Engines \cup {"none"}) =>
          boot'.real_engine \in
            (IF boot.cli_engine \in Engines
                  /\ Sentinels(dir) \ {boot.cli_engine} # {}
             THEN {"Err"}
             ELSE IF Sentinels(dir) # {} THEN Sentinels(dir)
             ELSE IF boot.cli_engine \in Engines THEN {boot.cli_engine}
             ELSE {"kvs"})]_vars

\* C22: for every ThreadPool implementation, new(0) returns
\* Err(ZeroSizedPool) and creates no worker, and new(n) with n > 0 returns a
\* pool of n workers.
NewChecksSize ==
    IF n_threads = 0
    THEN made = [ret |-> "ZeroSizedPool", workers |-> 0]
    ELSE made = [ret |-> "Ok", workers |-> n_threads]

\* the files S in ascending order of id
RECURSIVE Ascending(_)
Ascending(S) ==
    IF S = {} THEN <<>>
    ELSE LET lo == CHOOSE x \in S : \A y \in S : x <= y
         IN  <<lo>> \o Ascending(S \ {lo})

\* C23: open replays the segments in ascending order of id, whatever order
\* the directory listing returns them in: the index a successful open builds
\* is the one the replay in ascending order builds, so that for a key with
\* records in several segments the record in the highest segment decides.
OpenReplaysAscending ==
    [][((\E graceful \in BOOLEAN : Reopen(graceful)) /\ live' # {}) =>
          key_dir' = ReplayDir(Ascending(linked), [f \in linked |-> disk'[f]],
                               [key_dir |-> [k \in {} |-> NoMeta],
                                useless_size |-> 0, err |-> FALSE]).key_dir]_vars

\* the positions of a handle inside set, remove or compact
InMutation(h) ==
    pc[h] \in {"insert", "rm_append", "flush", "check", "compact", "copy",
               "delete", "publish"}

\* C24: at most one handle at a time is inside a mutation, and it holds the
\* writer mutex; while it does, no step of another handle changes the log or
\* the index; and between a compaction's copy of the index and its
\* publication the index changes by nothing but that publication, which
\* keeps every key, so the swap loses no mutation's index update.
WriterExclusion ==
    /\ [](\A h \in Handles : InMutation(h) => lock = h)
    /\ [][\A h, g \in Handles :
            (g # h /\ lock = h /\ pc'[g] # pc[g]) =>
                UNCHANGED <<key_dir, writer, disk, linked>>]_vars
    /\ [][Compacting =>
            \/ key_dir' = key_dir
            \/ /\ pc[lock] = "publish"
               /\ key_dir' = new_key_dir
               /\ DOMAIN new_key_dir = DOMAIN key_dir]_vars

WriterExclusionWitness ==
    \E h, g \in Handles :
        /\ g # h /\ lock = h /\ pc[h] = "publish"
        /\ Done(g) /\ op[g].type = "Set" /\ res[g] = ResOk
        /\ DOMAIN key_dir # {}

\* C25: a compaction deletes the old files first, then increments
\* global_version, then publishes the new index: the version moves only by a
\* compaction that has deleted every file its handle's reader cache names
\* and has not yet published, and the index is published only after that
\* increment.  So a Get that loaded an index published by a compaction reads
\* no segment that existed when that compaction began, and once it has
\* loaded global_version in read_value its local_version is at least the
\* value that compaction set.
PublicationOrder ==
    /\ [][global_version' # global_version =>
            /\ global_version' = global_version + 1
            /\ Compacting /\ pc[lock] = "delete"
            /\ readers[lock] \cap linked = {}
            /\ UNCHANGED <<key_dir, linked>>]_vars
    /\ [][(Compacting /\ key_dir' # key_dir) =>
            /\ pc[lock] = "publish"
            /\ global_version = published.n + 1
            /\ UNCHANGED <<global_version, linked>>]_vars
    /\ [](\A h \in Handles :
            (InGet(h) /\ snap[h].pub.n > 0) =>
                /\ meta[h].file_id \notin snap[h].pub.olds
                /\ pc[h] \in {"open", "decode"} =>
                       local_version[h] >= snap[h].pub.n)

PublicationOrderWitness ==
    \E h \in Handles :
        /\ pc[h] = "decode" /\ snap[h].pub.n > 0 /\ snap[h].pub.olds # {}
        /\ local_version[h] = snap[h].pub.n
        /\ lock # h /\ lastBy[op[h].key] # h

\* handle h passes the version check of read_value in this step, in a Get or
\* in the copy loop of a compaction
VersionCheck(h) ==
    \/ pc[h] = "version" /\ pc'[h] # "version"
    \/ pc[h] = "copy" /\ (pc'[h] # "copy" \/ todo' # todo)

\* the reader cache of h holds at most a reader opened in this very step
CacheRenewed(h) ==
    \/ readers'[h] = {}
    \/ pc[h] = "copy" /\ \E k \in todo : readers'[h] = {new_key_dir[k].file_id}

\* C26: whenever read_value on handle h observes global_version greater than
\* h's local_version it empties h's reader cache and sets local_version to
\* the observed value before it opens or reuses a reader; and local_version
\* never changes without the cache being emptied, so no cached reader was
\* opened under an older version than the one the handle has observed.
CacheInvalidation ==
    [][\A h \in Handles :
          /\ (VersionCheck(h) /\ global_version > local_version[h]) =>
                 local_version'[h] = global_version /\ CacheRenewed(h)
          /\ (VersionCheck(h) /\ global_version <= local_version[h]) =>
                 local_version'[h] = local_version[h]
          /\ local_version'[h] # local_version[h] => CacheRenewed(h)]_vars

CacheInvalidationWitness ==
    \E h \in Handles :
        /\ pc[h] = "open" /\ readers[h] = {}
        /\ local_version[h] = snap[h].pub.n + 1
        /\ \E g \in Handles \ {h} : readers[g] # {}

\* ------------------------------------------------------------------- C27
\* the steps in which append_log has written a record: set line 221, remove
\* line 249, compact line 168
SetAppends(h) == pc[h] = "idle" /\ pc'[h] = "insert"
RmAppends(h) == pc[h] = "rm_append" /\ pc'[h] = "flush"
CopyAppends(h) == pc[h] = "copy" /\ todo' # todo

\* the segment the writer is open on has changed in this step
Rolled == writer'.file # writer.file

\* the bytes this step has added to the segment the writer is open on
Received ==
    LET now == (SegmentBytes(writer.file))' IN
    IF Rolled THEN now
    ELSE SubSeq(now, Len(SegmentBytes(writer.file)) + 1, Len(now))

\* append_log of log, returning placement m: the roll-over decision, the
\* fresh segment and the placement
PlacedAs(log, m) ==
    /\ Rolled <=> (writer.pos + Len(log) > MAX_DATA_FILE_SIZE)
    /\ Rolled => /\ writer'.file \notin DOMAIN disk
                 /\ \A f \in DOMAIN disk : f < writer'.file
                 /\ disk'[writer.file] = SegmentBytes(writer.file)
    /\ ~Rolled => (SegmentBytes(writer.file))' = SegmentBytes(writer.file) \o log
    /\ Received = log
    /\ m.file_offset = (IF Rolled THEN 0 ELSE writer.pos)
    /\ m.len = Len(log)
    /\ m.file_id = writer'.file
    /\ m.file_id \in linked'
    /\ SubSeq((SegmentBytes(writer.file))', m.file_offset + 1,
              m.file_offset + m.len) = log
    /\ writer'.pos = m.file_offset + m.len

CompactStarts(h) == pc[h] = "compact" /\ pc'[h] \in {"copy", "delete"}
\* h is inside compact, past the creation of the fresh segment
InCompact(h) == pc[h] \in {"copy", "delete", "publish"}
\* the id of the segment the compaction in progress created first
FreshId == MaxOf(olds) + 1

\* C28: compaction first creates an empty segment whose id is the highest
\* segment id so far plus one; from then until it stores its index the
\* published index is not changed, and the index it stores on completing has
\* exactly the keys the published index had when the compaction started, each
\* placed in an existing segment whose id is at least that of the fresh one.
CompactionWritesFresh ==
    [][\A h \in Handles :
          /\ CompactStarts(h) =>
                /\ olds' = linked
                /\ writer'.file = MaxOf(linked) + 1
                /\ writer'.file = MaxOf(DOMAIN disk) + 1
                /\ writer'.file = FreshId'
                /\ writer'.file \in linked'
                /\ (SegmentBytes(writer.file))' = <<>>
                /\ writer'.pos = 0
                /\ new_key_dir' = key_dir
          /\ InCompact(h) =>
                /\ olds' = olds
                /\ DOMAIN new_key_dir' = DOMAIN key_dir
                /\ IF pc[h] = "publish" /\ pc'[h] = "idle"
                   THEN /\ res'[h] = ResOk
                        /\ DOMAIN key_dir' = DOMAIN key_dir
                        /\ \A k \in DOMAIN key_dir' :
                              /\ key_dir'[k].file_id >= FreshId
                              /\ key_dir'[k].file_id \in linked' \ olds
                   ELSE key_dir' = key_dir]_vars

\* the C28 case: a compaction of an index of two keys has completed, and both
\* keys are placed in the segment it created
CompactionWritesFreshWitness ==
    /\ afterCompact
    /\ published.n > 0
    /\ published.olds # {}
    /\ DOMAIN key_dir = Keys
    /\ \A k \in Keys : key_dir[k].file_id >= MaxOf(published.olds) + 1
    /\ \E k \in Keys : key_dir[k].file_offset > 0

\* ------------------------------------------------------------------- C29
\* the bytes of the record that the mutation of h makes useless: the length
\* in the placement its key has in the published index
Accounted(h) ==
    IF op'[h].key \in DOMAIN key_dir THEN key_dir[op'[h].key].len ELSE 0

\* C29: a Set or Rm adds the length of the record it supersedes to
\* useless_size, then enters compaction exactly when useless_size exceeds
\* COMPACT_THRESHOLD and returns Ok otherwise; nothing else changes
\* useless_size except a completing compaction, which sets it to 0; so
\* whenever a Set or Rm returns Ok, useless_size is at most COMPACT_THRESHOLD.
UselessBound ==
    [][\A h \in Handles :
          \* set lines 226-228, remove lines 243-244: the accounting
          /\ (pc[h] = "insert" /\ pc'[h] = "flush") =>
                writer'.useless_size = writer.useless_size + Accounted(h)
          /\ (pc[h] = "idle" /\ pc'[h] = "rm_append") =>
                /\ op'[h].key \in DOMAIN key_dir
                /\ writer'.useless_size = writer.useless_size + Accounted(h)
          \* set lines 234-237, remove lines 255-258: the decision
          /\ (pc[h] = "check" /\ pc'[h] # "check") =>
                IF writer.useless_size > COMPACT_THRESHOLD
                THEN pc'[h] = "compact" /\ res'[h] = Pending
                ELSE pc'[h] = "idle" /\ res'[h] = ResOk
          /\ (pc'[h] = "compact" /\ pc[h] # "compact") => pc[h] = "check"
          \* compact line 187
          /\ (pc[h] = "publish" /\ pc'[h] = "idle") =>
                writer'.useless_size = 0 /\ res'[h] = ResOk
          \* every other step of a call
          /\ (pc[h] = "idle" /\ pc'[h] = "insert") =>
                writer'.useless_size = writer.useless_size
          /\ (/\ pc[h] # "idle" /\ lock = h
              /\ ~(pc[h] = "insert" /\ pc'[h] = "flush")
              /\ ~(pc[h] = "publish" /\ pc'[h] = "idle")) =>
                writer'.useless_size = writer.useless_size
          \* the return of Ok
          /\ (/\ pc[h] # "idle" /\ pc'[h] = "idle"
              /\ op[h].type \in {"Set", "Rm"} /\ res'[h] = ResOk) =>
                /\ pc[h] \in {"check", "publish"}
                /\ writer'.useless_size <= COMPACT_THRESHOLD]_vars

\* the C29 case: a compaction has completed and reset useless_size, and a
\* later Set that superseded a record has returned Ok without compacting
UselessBoundWitness ==
    /\ published.n > 0
    /\ ~afterCompact
    /\ \E h \in live : Done(h) /\ op[h].type = "Set" /\ res[h] = ResOk
    /\ writer.useless_size > 0
    /\ writer.useless_size <= COMPACT_THRESHOLD
    /\ lock = NoHandle

\* ------------------------------------------------------------------- C30
\* a compaction has incremented global_version and not yet returned
Incremented == IF \E h \in Handles : pc[h] = "publish" THEN 1 ELSE 0

\* C30: global_version is 0 when the store is opened, never decreases and
\* changes only by the increment of a compaction, by exactly 1, and that
\* compaction then completes with Ok, so that global_version counts the
\* compactions that completed (plus the one between its increment and its
\* return); the local_version of a handle never decreases and never exceeds
\* global_version; a clone starts with the local_version its parent has and
\* with an empty reader cache.
VersionCounters ==
    /\ global_version = 0
    /\ \A h \in Handles : local_version[h] = 0
    /\ [][/\ global_version' >= global_version
          /\ global_version' # global_version =>
                /\ global_version' = global_version + 1
                /\ \E h \in Handles : pc[h] = "delete" /\ pc'[h] = "publish"
          /\ \A h \in Handles :
                /\ (pc[h] = "delete" /\ pc'[h] = "publish") =>
                      global_version' = global_version + 1
                /\ (pc[h] = "publish" /\ pc'[h] # "publish") =>
                      /\ pc'[h] = "idle" /\ res'[h] = ResOk
                      /\ published'.n = published.n + 1
          /\ published'.n # published.n =>
                \E h \in Handles : pc[h] = "publish" /\ pc'[h] = "idle"
          /\ global_version' = published'.n + Incremented'
          /\ \A h \in live :
                /\ local_version'[h] >= local_version[h]
                /\ local_version'[h] <= global_version'
          /\ \A n \in live' \ live :
                /\ \E h \in live : local_version'[n] = local_version[h]
                /\ local_version'[n] <= global_version'
                /\ readers'[n] = {}]_vars

\* the C30 case: a compaction has completed, the first handle has seen the
\* new version and cached a reader, and a clone made since, which has made no
\* call of its own, has that version and no reader
VersionCountersWitness ==
    /\ global_version = 1
    /\ published.n = 1
    /\ live = {1, 2}
    /\ local_version[1] = 1
    /\ readers[1] # {}
    /\ op[2] = NoOp
    /\ local_version[2] = 1
    /\ readers[2] = {}

\* ------------------------------------------------------------------- C31
\* the bytes hold something that is not a sequence of whole records
TornBytes(bytes) ==
    \/ ~Utf8(bytes)
    \/ ReplayFile(bytes, 0, 0, [key_dir |-> [k \in {} |-> NoMeta],
                                useless_size |-> 0, err |-> FALSE]).err

\* C31: when KvStore::open runs on a directory in which some segment holds an
\* incomplete or malformed record, it returns an error and there is no store.
TornOpenIsError ==
    [][((\E n \in 0..MAX_DATA_FILE_SIZE, half \in BOOLEAN : CrashOpen(n, half))
           /\ \E f \in linked : TornBytes(disk'[f]))
         => (opened' = "Err" /\ live' = {})]_vars

\* ------------------------------------------------------------------- C32
\* the handler of connection c has run to its end
Handled(c) == conn[c].req # "none" /\ fin[c] # "no"

\* C32: the handler of every connection that listen_on dispatched runs once;
\* if the request decoded it has made one engine call and handed one response,
\* the one for the engine's result, to the socket (on an engine error the Err
\* response, before it fails), and if the request did not decode it has made
\* no engine call and written nothing.  A response that the socket failed to
\* take is not held against the handler.
OneRequestOneResponse ==
    \A c \in Clients :
        Handled(c) =>
            /\ runs[c] = 1
            /\ conn[c].eres = Pending => conn[c].resp = NoResponse
            /\ conn[c].eres # Pending =>
                  /\ conn[c].eres # Panic
                  /\ conn[c].resp \in {Respond(conn[c].req, conn[c].eres),
                                       NoResponse}

\* ------------------------------------------------------------------- C33
\* every thread of the SharedQueueThreadPool has ended
PoolEnded ==
    /\ master.pc = "done"
    /\ \A w \in Workers : w < n_threads => wk[w].pc = "exit"

\* every job passed to spawn has been executed, once, to its end
AllJobsRan ==
    \A i \in 1..Len(spawned) : fin[spawned[i]] # "no" /\ runs[spawned[i]] = 1

IdleWorker(w) ==
    /\ w < n_threads
    /\ wk[w].pc \in {"hello", "report", "recv"}
    /\ job_chan[w] = <<>>

\* the job at the head of the input queue: the one the master has taken from
\* the channel and not yet sent, else the first in the channel
HeadJob ==
    IF master.job # NoJob THEN master.job
    ELSE IF repeater # <<>> THEN Head(repeater) ELSE NoJob

\* C34: in a SharedQueueThreadPool, whenever a job is at the head of the
\* input queue and some worker is idle, a worker eventually starts that job,
\* even if the jobs that run on the other workers never end.
NoHeadOfLineBlocking ==
    \A j \in Jobs :
        (/\ pool_kind = "SharedQueue"
         /\ HeadJob = j
         /\ \E w \in Workers : IdleWorker(w))
        ~> (runs[j] >= 1)

\* the C34 case: one worker is inside a job, the other is idle and a job
\* waits in the input queue
NoHeadOfLineBlockingWitness ==
    /\ pool_kind = "SharedQueue" /\ n_threads = 2
    /\ \E w \in Workers : wk[w].pc = "run"
    /\ \E w \in Workers : IdleWorker(w)
    /\ repeater # <<>>
    /\ master.job = NoJob

\* ------------------------------------------------------------------- C36
\* C36: when a Set or an Rm returns an I/O error that was raised while its
\* record was being appended, the published index and useless_size are what
\* they were before the call.  (An Rm reaches its append only if its key was
\* in the index, so afterwards the index holds the key again, is otherwise
\* unchanged, and useless_size does not count the key's record.)
ErrorAtomicity ==
    [][\A h \in Handles :
          /\ (/\ pc[h] = "idle" /\ pc'[h] = "idle" /\ nops' = nops + 1
              /\ op'[h].type = "Set" /\ res'[h] = IoError) =>
                /\ key_dir' = key_dir
                /\ writer'.useless_size = writer.useless_size
          /\ (pc[h] = "rm_append" /\ pc'[h] = "idle" /\ res'[h] = IoError) =>
                /\ op[h].key \in DOMAIN key_dir'
                /\ remove(key_dir', op[h].key) = key_dir
                /\ writer'.useless_size + key_dir'[op[h].key].len
                      = writer.useless_size]_vars

\* ------------------------------------------------------------------- C37
\* C37: while a compaction is at its deletion step, every file id it still
\* has to delete (the ids in the compacting handle's reader cache) names a
\* segment file that is in the directory and was there before the compaction
\* began; so no deletion fails and a Set or Rm never returns an error out of
\* the deletion step.
DeletionTargetsExist ==
    \A h \in Handles :
        (pc[h] = "delete" /\ lock = h) => (dels \subseteq linked \cap olds)

\* ------------------------------------------------------------------- C38
\* a Reopen step has found the directory as a compaction left it: the two
\* ids below the writer's that are missing together are a skipped id and a
\* deleted segment
ReopenedAfterDeletion ==
    /\ reopened /\ opened = "Ok"
    /\ \E f \in 0..writer.curr_file_id :
          f \notin linked /\ f + 1 \notin linked /\ f + 1 < writer.curr_file_id

Executing == {j \in Jobs : runs[j] > 0 /\ fin[j] = "no"}

\* C39: in a SharedQueueThreadPool made by new(n), at most n jobs are
\* executing at any moment, and every executing job was started once and is
\* the one job of a worker of the pool that is running it: no worker runs
\* two jobs at once.
BoundedParallelism ==
    (pool_kind = "SharedQueue" /\ made.ret = "Ok") =>
        /\ Cardinality(Executing) <= n_threads
        /\ \A j \in Executing :
              /\ runs[j] = 1
              /\ \E w \in Workers :
                    w < n_threads /\ wk[w].pc = "run" /\ wk[w].job = j
\* every worker is running a job while another job waits
BoundedParallelismWitness ==
    /\ pool_kind = "SharedQueue" /\ n_threads = MaxWorkers
    /\ Cardinality(Executing) = n_threads
    /\ Len(spawned) > n_threads

\* ------------------------------------------------------------------- C40
Tokens == {sleeper[i] : i \in 1..Len(sleeper)}

\* C40: in a SharedQueueThreadPool the master holds a job for worker i only
\* when i has announced itself idle and waits with an empty job channel, so
\* a job channel never holds more than one job and the master's send finds
\* room; the readiness channel holds at most one token per worker, of
\* workers that wait for a job (or have ended with the pool), so at most n
\* tokens, and a worker about to announce itself finds room.
DispatcherChannels ==
    (pool_kind = "SharedQueue" /\ made.ret = "Ok") =>
        /\ master.pc = "send" =>
              /\ master.id < n_threads /\ master.id \notin Tokens
              /\ wk[master.id].pc = "recv" /\ job_chan[master.id] = <<>>
        /\ \A w \in Workers : Len(job_chan[w]) <= 1
        /\ \A w \in Workers : job_chan[w] # <<>> => wk[w].pc = "recv"
        /\ Len(sleeper) <= n_threads
        /\ \A i, j \in 1..Len(sleeper) : sleeper[i] = sleeper[j] => i = j
        /\ \A w \in Tokens : w < n_threads /\ wk[w].pc \in {"recv", "exit"}
        /\ \A w \in Workers :
              (wk[w].pc \in {"hello", "report"} /\ sleeper_open) =>
                  Len(sleeper) < n_threads
\* the master is about to send a job to a worker that has announced itself
\* for the second time, while the other worker's token waits in the channel
DispatcherChannelsWitness ==
    /\ pool_kind = "SharedQueue" /\ n_threads = MaxWorkers
    /\ master.pc = "send" /\ Len(sleeper) = n_threads - 1
    /\ \E j \in Jobs : fin[j] # "no"

\* ------------------------------------------------------------------- C35
\* the lock-free store has answered a call that the rwlock store has
\* answered too
BothAnswered == pc[1] = "idle" /\ res[1] # Pending /\ rw.n = nops

\* C35: under one caller in the test profile, the two engines started on
\* empty directories answer every call alike: a Set or Rm gets the result
\* the rwlock store gave to the same call, a Get the result the rwlock store
\* gives in its state after the same calls; and after both were dropped and
\* reopened, the Gets, which read the mapping each open rebuilt, still agree.
EnginesAgree ==
    (BothAnswered /\ (reopened => rw.reopened)) =>
        IF op[1].type = "Get" THEN res[1] = rw_get(rw, op[1].key)
        ELSE rw.op = op[1] /\ res[1] = rw.res

=============================================================================
